---- MODULE Spec2Model ----
(***************************************************************************)
(* A model of the ultraFTP server (internal/server) and client             *)
(* (internal/client): one control loop per accepted connection, the        *)
(* command dispatcher, the passive/active data-channel negotiation with    *)
(* its detached accept goroutine, and the transfer handlers.               *)
(*                                                                         *)
(* The accept goroutine of handlePassive writes Session.dataConn with no   *)
(* synchronisation.  The control loop is therefore cut into atomic steps   *)
(* at its accesses of that field: a step ends where a write of the         *)
(* goroutine in between could change what the loop does next.              *)
(***************************************************************************)
EXTENDS Integers, Sequences, FiniteSets, TLC

\* ------------------------------------------------------------------ bounds

\* Data-channel sockets (passive listeners and active dials) the host can
\* hand out before net.Listen / net.Dial start to fail.
MaxConn == 2

ConnIds == 1..MaxConn

\* Remote addresses of control connections (the keys of FTPServer.sessions).
Addrs == {"c1", "c2"}

\* A nil net.Conn.
Nil == 0

\* ------------------------------------------------- strings that are paths

\* A string is kept as the view filepath takes of it: whether it starts with
\* "/", and its "/"-separated segments; `nums` is the view handlePort takes
\* (the numeric fields between commas, <<>> when the string has no comma).
Str(abs, segs) == [abs |-> abs, segs |-> segs, nums |-> <<>>]

EmptyStr == Str(FALSE, <<>>)
Slash == Str(TRUE, <<>>)

RECURSIVE CleanSegs(_, _, _)
CleanSegs(abs, segs, out) ==
    IF segs = <<>> THEN out
    ELSE LET h == Head(segs)
             t == Tail(segs)
         IN  IF h = "." THEN CleanSegs(abs, t, out)
             ELSE IF h = ".."
                  THEN IF out # <<>> /\ out[Len(out)] # ".."
                       THEN CleanSegs(abs, t, SubSeq(out, 1, Len(out) - 1))
                       ELSE IF abs THEN CleanSegs(abs, t, out)
                            ELSE CleanSegs(abs, t, Append(out, ".."))
                  ELSE CleanSegs(abs, t, Append(out, h))

\* filepath.Clean: "." segments dropped, "x/.." eliminated, ".." at the root
\* of a rooted path dropped, leading ".." of a relative path kept.  The
\* result "." (of an empty relative path) is the relative path of no segment.
Clean(p) == Str(p.abs, CleanSegs(p.abs, p.segs, <<>>))

\* filepath.Join(a, b) for a non-empty a (RootDir and workDir, the only first
\* elements the server passes): a + "/" + b, cleaned.
Join(a, b) == Clean(Str(a.abs, a.segs \o b.segs))

\* strings.HasPrefix(p, "/")
HasSlashPrefix(p) == p.abs

\* "/" + p, for a cleaned p: "." becomes "/."
PrependSlash(p) == IF p.segs = <<>> /\ ~p.abs THEN Str(TRUE, <<".">>) ELSE Str(TRUE, p.segs)

\* ------------------------------------------------------------ file system

\* The directory the server was started on (FTPServer.RootDir, absolute).
RootDir == Str(TRUE, <<"srv">>)

\* Directories of the host; the server creates and removes none.
Dirs == { <<>>, <<"srv">>, <<"srv", "d">> }

\* Regular files at server start: path -> content.
InitFiles ==
    ( <<"srv", "a.txt">> :> <<1, 2, 3, 4, 5>> ) @@
    ( <<"srv", "d", "a.txt">> :> <<9>> ) @@
    ( <<"secret">> :> <<8>> )

\* Bytes a peer uploads on a data channel during STOR.
Uploads == { <<>>, <<7>> }

NoFile == <<"(no file)">>

\* ---------------------------------------------------------------- state

VARIABLES
    registry,       \* FTPServer.sessions: the addresses registered
    pc,             \* where each connection's handleClient goroutine stands
    authenticated,  \* Session.authenticated
    workDir,        \* Session.workDir
    dataConn,       \* Session.dataConn: a data connection, or Nil
    fh,             \* the file a running transfer handler holds open
    nextId,         \* the next data-channel socket the host hands out
    lsn,            \* passive listeners: "none", "listening", "closed"
    dconn,          \* server ends of data connections: "none", "open", "closed"
    owner,          \* the session a listener or data connection was made for
    files,          \* regular files of the host: path -> content
    cur,            \* the command line the control loop read last
    resp,           \* replies written on the control connection for it
    fsLog,          \* file-system calls made for it
    xconn,          \* the data connection its transfer found and used
    wrote,          \* bytes written on that data connection for it
    cpc,            \* the client: where its Get stands ("off" when no client runs)
    cPath,          \* the client: the path of the URL it was given
    cOp,            \* the client: the function running, or that ran last ("" when none)
    c2s,            \* command lines in flight on the control connection
    s2c,            \* replies in flight on the control connection
    cData,          \* the client: FTPClient.dataConn, or Nil
    shut,           \* data connections the client closed its end of
    dialed,         \* passive listeners a client connection has reached
    rcvd,           \* bytes that arrived at the peer's end of each data connection
    got,            \* the client: the local file it wrote
    cerr,           \* the client: the error Get returns ("" for nil)
    cfinal,         \* the client: the code of the reply read after the copy
    fnArg,          \* the value an encoder or decoder is applied to on its own
    fnRet           \* what it returned

chanVars == <<nextId, lsn, dconn, owner>>
histVars == <<cur, resp, fsLog, xconn, wrote>>
serverVars == <<registry, pc, authenticated, workDir, dataConn, fh, chanVars, files, histVars>>
clientVars == <<cpc, cPath, cOp, c2s, s2c, cData, shut, dialed, rcvd, got, cerr, cfinal>>
calcVars == <<fnArg, fnRet>>

Reply(code, msg) == [code |-> code, msg |-> msg, arg |-> <<>>]

\* The replies and file-system calls of the command in progress: none yet
\* when the loop is only now reading it.
Out(s) == IF pc[s] = "read" THEN <<>> ELSE resp[s]
Log(s) == IF pc[s] = "read" THEN <<>> ELSE fsLog[s]

\* A file-system call, or the byte copy of a transfer: what it was made on,
\* whether it returned without error, and the bytes a copy moved.
IoCall(op, path, ok, n) == [op |-> op, path |-> path, ok |-> ok, n |-> n]
FsCall(op, path, ok) == IoCall(op, path, ok, 0)

InitServer ==
    /\ registry = {}
    /\ pc = [s \in Addrs |-> "none"]
    /\ authenticated = [s \in Addrs |-> FALSE]
    /\ workDir = [s \in Addrs |-> Slash]
    /\ dataConn = [s \in Addrs |-> Nil]
    /\ fh = [s \in Addrs |-> NoFile]
    /\ nextId = 1
    /\ lsn = [i \in ConnIds |-> "none"]
    /\ dconn = [i \in ConnIds |-> "none"]
    /\ owner = [i \in ConnIds |-> "nobody"]
    /\ files = InitFiles
    /\ cur = [s \in Addrs |-> [verb |-> "", param |-> EmptyStr]]
    /\ resp = [s \in Addrs |-> <<>>]
    /\ fsLog = [s \in Addrs |-> <<>>]
    /\ xconn = [s \in Addrs |-> Nil]
    /\ wrote = [s \in Addrs |-> <<>>]

\* Session.writeResponse: one reply line on the control connection.
writeResponse(s, code, msg) == resp' = [resp EXCEPT ![s] = Append(Out(s), Reply(code, msg))]

\* handleClient up to its command loop: the session is created and
\* registered under the lock, and the welcome line is written.
AcceptClient(s) ==
    /\ pc[s] = "none"
    /\ registry' = registry \cup {s}
    /\ pc' = [pc EXCEPT ![s] = "read"]
    /\ authenticated' = [authenticated EXCEPT ![s] = FALSE]
    /\ workDir' = [workDir EXCEPT ![s] = Slash]
    /\ dataConn' = [dataConn EXCEPT ![s] = Nil]
    /\ resp' = [resp EXCEPT ![s] = <<Reply(220, "UltraFTP Server ready")>>]
    /\ UNCHANGED <<fh, chanVars, files, cur, fsLog, xconn, wrote>>

\* ------------------------------------------------------- the file system

IsDir(path) == path \in Dirs
IsFile(path) == path \in DOMAIN files

\* os.Stat and os.Open succeed on whatever exists, a directory included.
Exists(path) == IsDir(path) \/ IsFile(path)

\* os.Create: the parent must be a directory and the path must not be one.
Parent(path) == SubSeq(path, 1, Len(path) - 1)
CanCreate(path) == path # <<>> /\ IsDir(Parent(path)) /\ ~IsDir(path)

\* One line of a listing per entry: the entry's name, as a number.
NameCode(n) ==
    CASE n = "a.txt" -> 101 [] n = "d" -> 102 [] n = "n.txt" -> 103
      [] n = "secret" -> 104 [] n = "srv" -> 105 [] OTHER -> 100

Children(path) ==
    { q \in Dirs \cup DOMAIN files : q # <<>> /\ Parent(q) = path }

RECURSIVE SortedSeq(_)
SortedSeq(S) ==
    IF S = {} THEN <<>>
    ELSE LET m == CHOOSE x \in S : \A y \in S : x <= y
         IN  <<m>> \o SortedSeq(S \ {m})

\* What handleList writes on the data connection for an existing path:
\* os.ReadDir's entries in name order, or the one line of a regular file.
Listing(path) ==
    IF IsDir(path)
    THEN SortedSeq({ NameCode(q[Len(q)]) : q \in Children(path) })
    ELSE <<NameCode(path[Len(path)])>>

\* -------------------------------------------------- simple command handlers

\* ReplyOnly, had the handler also sent the session back to "/".
ReplyOnlyResets(s, code, msg) ==
    /\ writeResponse(s, code, msg)
    /\ workDir' = [workDir EXCEPT ![s] = Slash]
    /\ fsLog' = [fsLog EXCEPT ![s] = <<>>]
    /\ xconn' = [xconn EXCEPT ![s] = Nil]
    /\ wrote' = [wrote EXCEPT ![s] = <<>>]
    /\ UNCHANGED <<registry, pc, authenticated, dataConn, fh, chanVars, files>>

\* A handler that only writes one reply.
ReplyOnly(s, code, msg) ==
    /\ writeResponse(s, code, msg)
    /\ fsLog' = [fsLog EXCEPT ![s] = <<>>]
    /\ xconn' = [xconn EXCEPT ![s] = Nil]
    /\ wrote' = [wrote EXCEPT ![s] = <<>>]
    /\ UNCHANGED <<registry, pc, authenticated, workDir, dataConn, fh, chanVars, files>>

\* handlePass, had it accepted a password only after a USER.
handlePassAfterUser(s) ==
    /\ authenticated' = [authenticated EXCEPT ![s] = (cur[s].verb = "USER")]
    /\ writeResponse(s, 230, "User logged in, proceed")
    /\ fsLog' = [fsLog EXCEPT ![s] = <<>>]
    /\ xconn' = [xconn EXCEPT ![s] = Nil]
    /\ wrote' = [wrote EXCEPT ![s] = <<>>]
    /\ UNCHANGED <<registry, pc, workDir, dataConn, fh, chanVars, files>>

\* case "PASS": any password is accepted, with or without a USER before it.
handlePass(s) ==
    /\ authenticated' = [authenticated EXCEPT ![s] = TRUE]
    /\ writeResponse(s, 230, "User logged in, proceed")
    /\ fsLog' = [fsLog EXCEPT ![s] = <<>>]
    /\ xconn' = [xconn EXCEPT ![s] = Nil]
    /\ wrote' = [wrote EXCEPT ![s] = <<>>]
    /\ UNCHANGED <<registry, pc, workDir, dataConn, fh, chanVars, files>>

\* case "FEAT": writeMultiResponse, one logical reply of three lines.
handleFeat(s) ==
    /\ resp' = [resp EXCEPT ![s] = Append(Out(s), Reply(211, "Features: UTF8 End"))]
    /\ fsLog' = [fsLog EXCEPT ![s] = <<>>]
    /\ xconn' = [xconn EXCEPT ![s] = Nil]
    /\ wrote' = [wrote EXCEPT ![s] = <<>>]
    /\ UNCHANGED <<registry, pc, authenticated, workDir, dataConn, fh, chanVars, files>>

\* handleQuit, had handleCommand returned true after the goodbye line, so
\* that the loop went on reading.
handleQuitKeepsLoop(s) ==
    /\ writeResponse(s, 221, "Goodbye")
    /\ fsLog' = [fsLog EXCEPT ![s] = <<>>]
    /\ xconn' = [xconn EXCEPT ![s] = Nil]
    /\ wrote' = [wrote EXCEPT ![s] = <<>>]
    /\ UNCHANGED <<registry, pc, authenticated, workDir, dataConn, fh, chanVars, files>>

\* case "QUIT": the goodbye line; handleCommand returns false and the loop
\* breaks, leaving handleClient's deferred cleanup to run.
handleQuit(s) ==
    /\ writeResponse(s, 221, "Goodbye")
    /\ pc' = [pc EXCEPT ![s] = "cleanup"]
    /\ fsLog' = [fsLog EXCEPT ![s] = <<>>]
    /\ xconn' = [xconn EXCEPT ![s] = Nil]
    /\ wrote' = [wrote EXCEPT ![s] = <<>>]
    /\ UNCHANGED <<registry, authenticated, workDir, dataConn, fh, chanVars, files>>

\* NewPath, had a parameter starting with "/" been taken without cleaning.
NewPathUncleaned(wd, param) ==
    IF HasSlashPrefix(param) THEN param
    ELSE LET cleaned == Clean(Join(wd, param))
         IN  IF ~HasSlashPrefix(cleaned) THEN PrependSlash(cleaned) ELSE cleaned

\* handleChangeDir: the target is the parameter itself when it starts with
\* "/", else workDir joined with it; cleaned, re-rooted, and accepted when
\* RootDir joined with it is a directory.
NewPath(wd, param) ==
    LET joined == IF HasSlashPrefix(param) THEN param ELSE Join(wd, param)
        cleaned == Clean(joined)
    IN  IF ~HasSlashPrefix(cleaned) THEN PrependSlash(cleaned) ELSE cleaned

\* handleChangeDir, had it stored the new path before checking it.
handleChangeDirEager(s, param) ==
    LET newPath == NewPath(workDir[s], param)
        fullPath == Join(RootDir, newPath)
    IN  /\ fsLog' = [fsLog EXCEPT ![s] = Append(Log(s), FsCall("stat", fullPath.segs, Exists(fullPath.segs)))]
        /\ xconn' = [xconn EXCEPT ![s] = Nil]
        /\ wrote' = [wrote EXCEPT ![s] = <<>>]
        /\ workDir' = [workDir EXCEPT ![s] = newPath]
        /\ IF ~IsDir(fullPath.segs)
           THEN writeResponse(s, 550, "Directory not found")
           ELSE writeResponse(s, 250, "Directory successfully changed")
        /\ UNCHANGED <<registry, pc, authenticated, dataConn, fh, chanVars, files>>

handleChangeDir(s, param) ==
    LET newPath == NewPath(workDir[s], param)
        fullPath == Join(RootDir, newPath)
    IN  /\ fsLog' = [fsLog EXCEPT ![s] = Append(Log(s), FsCall("stat", fullPath.segs, Exists(fullPath.segs)))]
        /\ xconn' = [xconn EXCEPT ![s] = Nil]
        /\ wrote' = [wrote EXCEPT ![s] = <<>>]
        /\ IF ~IsDir(fullPath.segs)
           THEN /\ writeResponse(s, 550, "Directory not found")
                /\ UNCHANGED workDir
           ELSE /\ workDir' = [workDir EXCEPT ![s] = newPath]
                /\ writeResponse(s, 250, "Directory successfully changed")
        /\ UNCHANGED <<registry, pc, authenticated, dataConn, fh, chanVars, files>>

\* ------------------------------------------------------------ data channel

\* What the host and the peer decide during a handler: whether net.Listen,
\* net.Dial, file.Stat, os.ReadDir and the byte copy succeed, and the bytes
\* the peer sends on the data connection.
EnvOK == [listen |-> "ok", dial |-> TRUE, stat |-> TRUE, readdir |-> TRUE,
          copy |-> TRUE, data |-> <<>>]

\* A parameter of PORT: the fields between its commas.
PortStr(nums) == [abs |-> FALSE, segs |-> <<"h1,h2,h3,h4,p1,p2">>, nums |-> nums]

\* len(strings.Split(param, ","))
CommaParts(param) == IF param.nums = <<>> THEN 1 ELSE Len(param.nums)

\* PortOf, had the high byte been weighted by 255.
PortOfShort(nums) == nums[5] * 255 + nums[6]

\* handlePort's port := p1*256 + p2
PortOf(nums) == nums[5] * 256 + nums[6]

\* The first statement of handlePassive and handlePort when the slot is
\* occupied: session.dataConn.Close().  The write of nil follows as a step
\* of its own, so that the accept goroutine's write may fall in between.
closeDataConn(s) ==
    /\ dconn' = [dconn EXCEPT ![dataConn[s]] = "closed"]
    /\ pc' = [pc EXCEPT ![s] = "clearSlot"]
    /\ resp' = [resp EXCEPT ![s] = Out(s)]
    /\ fsLog' = [fsLog EXCEPT ![s] = <<>>]
    /\ xconn' = [xconn EXCEPT ![s] = Nil]
    /\ wrote' = [wrote EXCEPT ![s] = <<>>]
    /\ UNCHANGED <<registry, authenticated, workDir, dataConn, fh, nextId, lsn, owner, files>>

\* net.Listen("tcp", ":0"): the port the host gives the listener.
FirstPort == 49152
ListenPort(l) == FirstPort + l

\* The six numbers of handlePassive's 227 reply: the four parts of the
\* control connection's local address, then port / 256 and port % 256.
PassiveAddr(port) == <<127, 0, 0, 1, port \div 256, port % 256>>

\* handlePassive from `session.dataConn = nil` on: the listener, the 227
\* reply carrying its address, and the accept goroutine left behind.
passiveListen(s, e) ==
    /\ dataConn' = [dataConn EXCEPT ![s] = Nil]
    /\ pc' = [pc EXCEPT ![s] = "read"]
    /\ fsLog' = [fsLog EXCEPT ![s] = <<>>]
    /\ xconn' = [xconn EXCEPT ![s] = Nil]
    /\ wrote' = [wrote EXCEPT ![s] = <<>>]
    /\ IF e.listen = "ok" /\ nextId <= MaxConn
       THEN /\ lsn' = [lsn EXCEPT ![nextId] = "listening"]
            /\ owner' = [owner EXCEPT ![nextId] = s]
            /\ nextId' = nextId + 1
            /\ resp' = [resp EXCEPT ![s] = Append(Out(s),
                          [code |-> 227, msg |-> "Entering Passive Mode",
                           arg |-> PassiveAddr(ListenPort(nextId))])]
       ELSE /\ writeResponse(s, 425, "Cannot open data connection")
            /\ UNCHANGED <<lsn, owner, nextId>>
    /\ UNCHANGED <<registry, authenticated, workDir, fh, dconn, files>>

handlePassive(s, e) ==
    IF dataConn[s] # Nil THEN closeDataConn(s) ELSE passiveListen(s, e)

\* portDial, had the slot been left as it was when the dial fails.
portDialKeepsSlot(s, param, e) ==
    /\ pc' = [pc EXCEPT ![s] = "read"]
    /\ fsLog' = [fsLog EXCEPT ![s] = <<>>]
    /\ xconn' = [xconn EXCEPT ![s] = Nil]
    /\ wrote' = [wrote EXCEPT ![s] = <<>>]
    /\ IF CommaParts(param) # 6
       THEN /\ writeResponse(s, 501, "Invalid PORT command")
            /\ dataConn' = [dataConn EXCEPT ![s] = Nil]
            /\ UNCHANGED <<dconn, owner, nextId>>
       ELSE IF e.dial /\ nextId <= MaxConn
            THEN /\ dconn' = [dconn EXCEPT ![nextId] = "open"]
                 /\ owner' = [owner EXCEPT ![nextId] = s]
                 /\ nextId' = nextId + 1
                 /\ dataConn' = [dataConn EXCEPT ![s] = nextId]
                 /\ writeResponse(s, 200, "PORT command successful")
            ELSE /\ writeResponse(s, 425, "Cannot open data connection")
                 /\ UNCHANGED <<dataConn, dconn, owner, nextId>>
    /\ UNCHANGED <<registry, authenticated, workDir, fh, lsn, files>>

\* handlePort from `session.dataConn = nil` on.
portDial(s, param, e) ==
    /\ pc' = [pc EXCEPT ![s] = "read"]
    /\ fsLog' = [fsLog EXCEPT ![s] = <<>>]
    /\ xconn' = [xconn EXCEPT ![s] = Nil]
    /\ wrote' = [wrote EXCEPT ![s] = <<>>]
    /\ IF CommaParts(param) # 6
       THEN /\ writeResponse(s, 501, "Invalid PORT command")
            /\ dataConn' = [dataConn EXCEPT ![s] = Nil]
            /\ UNCHANGED <<dconn, owner, nextId>>
       ELSE IF e.dial /\ nextId <= MaxConn
            THEN /\ dconn' = [dconn EXCEPT ![nextId] = "open"]
                 /\ owner' = [owner EXCEPT ![nextId] = s]
                 /\ nextId' = nextId + 1
                 /\ dataConn' = [dataConn EXCEPT ![s] = nextId]
                 /\ writeResponse(s, 200, "PORT command successful")
            ELSE /\ writeResponse(s, 425, "Cannot open data connection")
                 /\ dataConn' = [dataConn EXCEPT ![s] = Nil]
                 /\ UNCHANGED <<dconn, owner, nextId>>
    /\ UNCHANGED <<registry, authenticated, workDir, fh, lsn, files>>

handlePort(s, param, e) ==
    IF dataConn[s] # Nil THEN closeDataConn(s) ELSE portDial(s, param, e)

\* PassiveAccept, had the goroutine stored the connection under a lock that
\* the control loop holds while a handler runs: the store waits for the loop
\* to be back at its read.
PassiveAcceptLocked(l) ==
    /\ lsn[l] = "listening"
    /\ pc[owner[l]] \in {"read", "closed"}
    /\ lsn' = [lsn EXCEPT ![l] = "closed"]
    /\ dconn' = [dconn EXCEPT ![l] = "open"]
    /\ dataConn' = [dataConn EXCEPT ![owner[l]] = l]
    /\ UNCHANGED <<registry, pc, authenticated, workDir, fh, nextId, owner, files, histVars>>

\* PassiveAccept, had the accepted connection been stored in every session
\* of the registry.
PassiveAcceptShared(l) ==
    /\ lsn[l] = "listening"
    /\ lsn' = [lsn EXCEPT ![l] = "closed"]
    /\ dconn' = [dconn EXCEPT ![l] = "open"]
    /\ dataConn' = [s \in Addrs |-> IF s \in registry \cup {owner[l]} THEN l ELSE dataConn[s]]
    /\ UNCHANGED <<registry, pc, authenticated, workDir, fh, nextId, owner, files, histVars>>

\* The goroutine of handlePassive: listener.Accept() returned a connection,
\* which is stored in the session with no lock; the listener is closed.
PassiveAccept(l) ==
    /\ lsn[l] = "listening"
    /\ lsn' = [lsn EXCEPT ![l] = "closed"]
    /\ dconn' = [dconn EXCEPT ![l] = "open"]
    /\ dataConn' = [dataConn EXCEPT ![owner[l]] = l]
    /\ UNCHANGED <<registry, pc, authenticated, workDir, fh, nextId, owner, files, histVars>>

\* The same goroutine when listener.Accept() fails.
PassiveAcceptError(l) ==
    /\ lsn[l] = "listening"
    /\ lsn' = [lsn EXCEPT ![l] = "closed"]
    /\ UNCHANGED <<registry, pc, authenticated, workDir, dataConn, fh, nextId, dconn, owner,
                   files, histVars>>

\* ---------------------------------------------------------------- transfers

\* Every transfer handler runs in up to four steps: from its nil check to
\* its 150 or 550 reply; the byte copy on whatever session.dataConn then
\* holds, with the completion reply; and the two statements of its deferred
\* function, session.dataConn.Close() and session.dataConn = nil.

\* The `if session.dataConn == nil` branch shared by the three handlers.
noDataConn(s) ==
    /\ writeResponse(s, 425, "Use PORT or PASV first")
    /\ fsLog' = [fsLog EXCEPT ![s] = <<>>]
    /\ xconn' = [xconn EXCEPT ![s] = Nil]
    /\ wrote' = [wrote EXCEPT ![s] = <<>>]
    /\ UNCHANGED <<registry, pc, authenticated, workDir, dataConn, fh, chanVars, files>>

\* A handler that replied 550 before its 150: only the deferred function is
\* left to run.
refuse(s, call, msg) ==
    /\ writeResponse(s, 550, msg)
    /\ fsLog' = [fsLog EXCEPT ![s] = Append(Log(s), call)]
    /\ xconn' = [xconn EXCEPT ![s] = dataConn[s]]
    /\ wrote' = [wrote EXCEPT ![s] = <<>>]
    /\ pc' = [pc EXCEPT ![s] = "deferClose"]
    /\ UNCHANGED <<registry, authenticated, workDir, dataConn, fh, chanVars, files>>

\* A handler that replied 150 and goes on to copy.
proceed(s, call, path, msg) ==
    /\ writeResponse(s, 150, msg)
    /\ fsLog' = [fsLog EXCEPT ![s] = Append(Log(s), call)]
    /\ xconn' = [xconn EXCEPT ![s] = dataConn[s]]
    /\ wrote' = [wrote EXCEPT ![s] = <<>>]
    /\ fh' = [fh EXCEPT ![s] = path]
    /\ pc' = [pc EXCEPT ![s] = "copy"]
    /\ UNCHANGED <<registry, authenticated, workDir, dataConn, chanVars>>

\* handleList's choice of the directory to list.
ListPath(wd, param) ==
    IF param = EmptyStr \/ param = Str(FALSE, <<"-a">>) \/ param = Str(FALSE, <<"-l">>)
    THEN wd ELSE param

handleList(s, param) ==
    LET fullPath == Join(RootDir, Clean(ListPath(workDir[s], param))).segs
    IN  IF dataConn[s] = Nil THEN noDataConn(s)
        ELSE IF ~Exists(fullPath)
             THEN refuse(s, FsCall("stat", fullPath, FALSE), "File not found")
             ELSE /\ proceed(s, FsCall("stat", fullPath, TRUE), fullPath,
                             "Here comes the directory listing")
                  /\ UNCHANGED files

\* FullPath, had the parameter been cleaned as a rooted path before the
\* join, so that no ".." could climb out of RootDir.
FullPathConfined(param) == Join(RootDir, Clean(Str(TRUE, param.segs))).segs

\* The path handleRetrieve and handleStore act on.
FullPath(param) == Join(RootDir, Clean(param)).segs

handleRetrieve(s, param, e) ==
    LET fullPath == FullPath(param)
    IN  IF dataConn[s] = Nil THEN noDataConn(s)
        ELSE IF ~Exists(fullPath)
             THEN refuse(s, FsCall("open", fullPath, FALSE), "File not found")
             ELSE IF ~e.stat
                  THEN refuse(s, FsCall("open", fullPath, TRUE), "Error accessing file")
                  ELSE /\ proceed(s, FsCall("open", fullPath, TRUE), fullPath,
                                  "Opening data connection")
                       /\ UNCHANGED files

\* handleStore, had it created the file before looking at the slot.
handleStoreCreatesFirst(s, param) ==
    LET fullPath == FullPath(param)
        created == [q \in DOMAIN files \cup {fullPath} |->
                      IF q = fullPath THEN <<>> ELSE files[q]]
    IN  IF ~CanCreate(fullPath)
        THEN IF dataConn[s] = Nil THEN noDataConn(s)
             ELSE refuse(s, FsCall("create", fullPath, FALSE), "Cannot create file")
        ELSE IF dataConn[s] = Nil
             THEN /\ writeResponse(s, 425, "Use PORT or PASV first")
                  /\ fsLog' = [fsLog EXCEPT ![s] = <<FsCall("create", fullPath, TRUE)>>]
                  /\ xconn' = [xconn EXCEPT ![s] = Nil]
                  /\ wrote' = [wrote EXCEPT ![s] = <<>>]
                  /\ files' = created
                  /\ UNCHANGED <<registry, pc, authenticated, workDir, dataConn, fh, chanVars>>
             ELSE /\ proceed(s, FsCall("create", fullPath, TRUE), fullPath, "Ok to send data")
                  /\ files' = created

handleStore(s, param) ==
    LET fullPath == FullPath(param)
    IN  IF dataConn[s] = Nil THEN noDataConn(s)
        ELSE IF ~CanCreate(fullPath)
             THEN refuse(s, FsCall("create", fullPath, FALSE), "Cannot create file")
             ELSE /\ proceed(s, FsCall("create", fullPath, TRUE), fullPath, "Ok to send data")
                  /\ files' = [q \in DOMAIN files \cup {fullPath} |->
                                 IF q = fullPath THEN <<>> ELSE files[q]]

\* The end of a copy step: the reply, if any, and on to the deferred function.
copyDone(s, call, replies) ==
    /\ resp' = [resp EXCEPT ![s] = Out(s) \o replies]
    /\ fsLog' = [fsLog EXCEPT ![s] = Append(Log(s), call)]
    /\ xconn' = [xconn EXCEPT ![s] = dataConn[s]]
    /\ pc' = [pc EXCEPT ![s] = "deferClose"]
    /\ UNCHANGED <<registry, authenticated, workDir, dataConn, fh, nextId, lsn, dconn, owner, cur>>

\* handleList after its 150: the entries (or the one file) are written on
\* session.dataConn, write errors are ignored, and 226 follows; a failing
\* os.ReadDir replies 550 instead.
ListCopy(s, e) ==
    /\ pc[s] = "copy" /\ cur[s].verb = "LIST"
    /\ IF IsDir(fh[s]) /\ ~e.readdir
       THEN /\ copyDone(s, FsCall("readdir", fh[s], FALSE),
                        <<Reply(550, "Error reading directory")>>)
            /\ UNCHANGED wrote
       ELSE LET sent == IF dconn[dataConn[s]] = "open" /\ e.copy THEN Listing(fh[s]) ELSE <<>>
            IN  /\ copyDone(s, IoCall("list", fh[s], TRUE, Len(sent)),
                            <<Reply(226, "Directory send OK")>>)
                /\ wrote' = [wrote EXCEPT ![s] = @ \o sent]
    /\ UNCHANGED files

\* handleRetrieve after its 150: the file is copied to session.dataConn and
\* 226 follows; a failing copy (a directory cannot be read, the peer is gone)
\* only logs and returns.
RetrieveCopy(s, e) ==
    /\ pc[s] = "copy" /\ cur[s].verb = "RETR"
    /\ IF IsDir(fh[s]) \/ ~e.copy \/ dconn[dataConn[s]] # "open"
       THEN /\ copyDone(s, IoCall("send", fh[s], FALSE, 0), <<>>)
            /\ UNCHANGED wrote
       ELSE /\ copyDone(s, IoCall("send", fh[s], TRUE, Len(files[fh[s]])),
                        <<Reply(226, "Transfer complete")>>)
            /\ wrote' = [wrote EXCEPT ![s] = @ \o files[fh[s]]]
    /\ UNCHANGED files

\* StoreCopy, had it taken a copy of no byte for a failed one.
StoreCopyEmptyIsError(s, e) ==
    /\ pc[s] = "copy" /\ cur[s].verb = "STOR"
    /\ files' = [files EXCEPT ![fh[s]] = e.data]
    /\ IF ~e.copy \/ dconn[dataConn[s]] # "open"
       THEN copyDone(s, IoCall("receive", fh[s], FALSE, Len(e.data)), <<>>)
       ELSE copyDone(s, IoCall("receive", fh[s], TRUE, Len(e.data)),
                     IF e.data = <<>> THEN <<>> ELSE <<Reply(226, "Transfer complete")>>)
    /\ UNCHANGED wrote

\* handleStore after its 150: the bytes the peer sent before it closed (or
\* before the connection failed) are written to the file; 226 follows a
\* copy that ended without error.
StoreCopy(s, e) ==
    /\ pc[s] = "copy" /\ cur[s].verb = "STOR"
    /\ files' = [files EXCEPT ![fh[s]] = e.data]
    /\ IF ~e.copy \/ dconn[dataConn[s]] # "open"
       THEN copyDone(s, IoCall("receive", fh[s], FALSE, Len(e.data)), <<>>)
       ELSE copyDone(s, IoCall("receive", fh[s], TRUE, Len(e.data)),
                     <<Reply(226, "Transfer complete")>>)
    /\ UNCHANGED wrote

\* The deferred function of a transfer handler, first statement:
\* session.dataConn.Close() (after the deferred file.Close()).
DeferredClose(s) ==
    /\ pc[s] = "deferClose"
    /\ dconn' = [dconn EXCEPT ![dataConn[s]] = "closed"]
    /\ fh' = [fh EXCEPT ![s] = NoFile]
    /\ pc' = [pc EXCEPT ![s] = "deferClear"]
    /\ UNCHANGED <<registry, authenticated, workDir, dataConn, nextId, lsn, owner,
                   files, histVars>>

\* The deferred function, second statement: session.dataConn = nil.
DeferredClear(s) ==
    /\ pc[s] = "deferClear"
    /\ dataConn' = [dataConn EXCEPT ![s] = Nil]
    /\ pc' = [pc EXCEPT ![s] = "read"]
    /\ UNCHANGED <<registry, authenticated, workDir, fh, chanVars, files, histVars>>

\* --------------------------------------------------------------- dispatcher

\* NeedsLogin, had the check been left out of one case.
NeedsLoginWithoutStor == {"LIST", "RETR", "CWD", "CDUP"}

\* The verbs that reply 530 until PASS was processed.
NeedsLogin == {"LIST", "RETR", "STOR", "CWD", "CDUP"}

\* handleCommand, had the !session.authenticated checks been left out.
handleCommandNoGate(s, command, param, e) ==
    /\ cur' = [cur EXCEPT ![s] = [verb |-> command, param |-> param]]
    /\ CASE command = "USER" -> ReplyOnly(s, 331, "User name okay, need password")
         [] command = "PASS" -> handlePass(s)
         [] command = "SYST" -> ReplyOnly(s, 215, "UNIX Type: L8")
         [] command = "FEAT" -> handleFeat(s)
         [] command = "PWD"  -> ReplyOnly(s, 257, "is the current directory")
         [] command = "TYPE" -> ReplyOnly(s, 200, "Type set to")
         [] command = "PASV" -> handlePassive(s, e)
         [] command = "PORT" -> handlePort(s, param, e)
         [] command = "LIST" -> handleList(s, param)
         [] command = "RETR" -> handleRetrieve(s, param, e)
         [] command = "STOR" -> handleStore(s, param)
         [] command = "CWD"  -> handleChangeDir(s, param)
         [] command = "CDUP" -> handleChangeDir(s, Str(FALSE, <<"..">>))
         [] command = "QUIT" -> handleQuit(s)
         [] OTHER -> ReplyOnly(s, 502, "Command not implemented")

\* handleCommand: one command line read by the control loop.
handleCommand(s, command, param, e) ==
    /\ cur' = [cur EXCEPT ![s] = [verb |-> command, param |-> param]]
    /\ CASE command = "USER" -> ReplyOnly(s, 331, "User name okay, need password")
         [] command = "PASS" -> handlePass(s)
         [] command = "SYST" -> ReplyOnly(s, 215, "UNIX Type: L8")
         [] command = "FEAT" -> handleFeat(s)
         [] command = "PWD"  -> ReplyOnly(s, 257, "is the current directory")
         [] command = "TYPE" -> ReplyOnly(s, 200, "Type set to")
         [] command = "PASV" -> handlePassive(s, e)
         [] command = "PORT" -> handlePort(s, param, e)
         [] command \in NeedsLogin /\ ~authenticated[s] -> ReplyOnly(s, 530, "Not logged in")
         [] command = "LIST" /\ authenticated[s] -> handleList(s, param)
         [] command = "RETR" /\ authenticated[s] -> handleRetrieve(s, param, e)
         [] command = "STOR" /\ authenticated[s] -> handleStore(s, param)
         [] command = "CWD"  /\ authenticated[s] -> handleChangeDir(s, param)
         [] command = "CDUP" /\ authenticated[s] -> handleChangeDir(s, Str(FALSE, <<"..">>))
         [] command = "QUIT" -> handleQuit(s)
         [] OTHER -> ReplyOnly(s, 502, "Command not implemented")

\* The second step of PASV and PORT when the slot was occupied.
PassiveSetup(s, e) ==
    /\ pc[s] = "clearSlot" /\ cur[s].verb = "PASV"
    /\ passiveListen(s, e)
    /\ UNCHANGED cur

PortSetup(s, e) ==
    /\ pc[s] = "clearSlot" /\ cur[s].verb = "PORT"
    /\ portDial(s, cur[s].param, e)
    /\ UNCHANGED cur

\* The control loop's read fails (the peer closed the control connection):
\* the loop breaks.
ReadError(s) ==
    /\ pc[s] = "read"
    /\ pc' = [pc EXCEPT ![s] = "cleanup"]
    /\ UNCHANGED <<registry, authenticated, workDir, dataConn, fh, chanVars, files, histVars>>

\* handleClient's deferred cleanup: the registry entry is deleted under the
\* lock, session.dataConn is closed when it is not nil, and the control
\* connection is closed.
Cleanup(s) ==
    /\ pc[s] = "cleanup"
    /\ registry' = registry \ {s}
    /\ dconn' = IF dataConn[s] # Nil THEN [dconn EXCEPT ![dataConn[s]] = "closed"] ELSE dconn
    /\ pc' = [pc EXCEPT ![s] = "closed"]
    /\ UNCHANGED <<authenticated, workDir, dataConn, fh, nextId, lsn, owner, files,
                   histVars>>

\* ------------------------------------------------- the server on its own

\* Parameters a peer sends with CWD, LIST, RETR and STOR, and with PORT.
CwdParams ==
    { EmptyStr, Str(FALSE, <<"d">>), Str(FALSE, <<"..">>), Str(FALSE, <<"n.txt">>),
      Str(FALSE, <<"a.txt">>), Str(TRUE, <<"d", "..", "d">>) }

Passwords == { Str(FALSE, <<"guest@">>), EmptyStr }

ListParams == { EmptyStr, Str(FALSE, <<"-a">>), Str(FALSE, <<"n.txt">>) }

RetrParams ==
    { Str(FALSE, <<"a.txt">>), Str(FALSE, <<"n.txt">>), Str(FALSE, <<"d">>),
      Str(FALSE, <<"..", "secret">>) }

StorParams == { Str(FALSE, <<"n.txt">>), Str(FALSE, <<"d">>), Str(FALSE, <<"..", "secret">>) }

PortParams == { PortStr(<<127, 0, 0, 1, 4, 1>>), PortStr(<<127, 0, 0, 1>>) }

\* The control connections Spec lets in.
Clients == {"c1"}

\* One action per verb: the control loop reads that command line and runs
\* handleCommand on it.  No client of the model takes part.
CmdUser(s) ==
    /\ pc[s] = "read"
    /\ handleCommand(s, "USER", Str(FALSE, <<"anonymous">>), EnvOK)
    /\ UNCHANGED <<clientVars, calcVars>>

CmdPass(s) ==
    /\ pc[s] = "read"
    /\ \E pw \in Passwords : handleCommand(s, "PASS", pw, EnvOK)
    /\ UNCHANGED <<clientVars, calcVars>>

CmdSyst(s) ==
    /\ pc[s] = "read"
    /\ handleCommand(s, "SYST", EmptyStr, EnvOK)
    /\ UNCHANGED <<clientVars, calcVars>>

CmdFeat(s) ==
    /\ pc[s] = "read"
    /\ handleCommand(s, "FEAT", EmptyStr, EnvOK)
    /\ UNCHANGED <<clientVars, calcVars>>

CmdPwd(s) ==
    /\ pc[s] = "read"
    /\ handleCommand(s, "PWD", EmptyStr, EnvOK)
    /\ UNCHANGED <<clientVars, calcVars>>

CmdType(s) ==
    /\ pc[s] = "read"
    /\ handleCommand(s, "TYPE", Str(FALSE, <<"I">>), EnvOK)
    /\ UNCHANGED <<clientVars, calcVars>>

CmdOther(s) ==
    /\ pc[s] = "read"
    /\ handleCommand(s, "MKD", Str(FALSE, <<"d">>), EnvOK)
    /\ UNCHANGED <<clientVars, calcVars>>

CmdQuit(s) ==
    /\ pc[s] = "read"
    /\ handleCommand(s, "QUIT", EmptyStr, EnvOK)
    /\ UNCHANGED <<clientVars, calcVars>>

CmdPasv(s) ==
    /\ pc[s] = "read"
    /\ \E l \in {"ok", "listenErr", "addrErr"} :
          handleCommand(s, "PASV", EmptyStr, [EnvOK EXCEPT !.listen = l])
    /\ UNCHANGED <<clientVars, calcVars>>

CmdPort(s) ==
    /\ pc[s] = "read"
    /\ \E p \in PortParams, d \in BOOLEAN :
          handleCommand(s, "PORT", p, [EnvOK EXCEPT !.dial = d])
    /\ UNCHANGED <<clientVars, calcVars>>

CmdList(s) ==
    /\ pc[s] = "read"
    /\ \E p \in ListParams : handleCommand(s, "LIST", p, EnvOK)
    /\ UNCHANGED <<clientVars, calcVars>>

CmdRetr(s) ==
    /\ pc[s] = "read"
    /\ \E p \in RetrParams, ok \in BOOLEAN :
          handleCommand(s, "RETR", p, [EnvOK EXCEPT !.stat = ok])
    /\ UNCHANGED <<clientVars, calcVars>>

CmdStor(s) ==
    /\ pc[s] = "read"
    /\ \E p \in StorParams : handleCommand(s, "STOR", p, EnvOK)
    /\ UNCHANGED <<clientVars, calcVars>>

CmdCwd(s) ==
    /\ pc[s] = "read"
    /\ \E p \in CwdParams : handleCommand(s, "CWD", p, EnvOK)
    /\ UNCHANGED <<clientVars, calcVars>>

CmdCdup(s) ==
    /\ pc[s] = "read"
    /\ handleCommand(s, "CDUP", EmptyStr, EnvOK)
    /\ UNCHANGED <<clientVars, calcVars>>

\* The later steps of the handlers, with every outcome of the host and peer.
StepPassiveSetup(s) ==
    /\ \E l \in {"ok", "listenErr", "addrErr"} : PassiveSetup(s, [EnvOK EXCEPT !.listen = l])
    /\ UNCHANGED <<clientVars, calcVars>>

StepPortSetup(s) ==
    /\ \E d \in BOOLEAN : PortSetup(s, [EnvOK EXCEPT !.dial = d])
    /\ UNCHANGED <<clientVars, calcVars>>

StepListCopy(s) ==
    /\ \E r \in BOOLEAN, c \in BOOLEAN : ListCopy(s, [EnvOK EXCEPT !.readdir = r, !.copy = c])
    /\ UNCHANGED <<clientVars, calcVars>>

StepRetrieveCopy(s) ==
    /\ \E c \in BOOLEAN : RetrieveCopy(s, [EnvOK EXCEPT !.copy = c])
    /\ UNCHANGED <<clientVars, calcVars>>

StepStoreCopy(s) ==
    /\ \E c \in BOOLEAN, d \in Uploads : StoreCopy(s, [EnvOK EXCEPT !.copy = c, !.data = d])
    /\ UNCHANGED <<clientVars, calcVars>>

StepDeferredClose(s) == DeferredClose(s) /\ UNCHANGED <<clientVars, calcVars>>
StepDeferredClear(s) == DeferredClear(s) /\ UNCHANGED <<clientVars, calcVars>>
StepCleanup(s) == Cleanup(s) /\ UNCHANGED <<clientVars, calcVars>>
StepAcceptClient(s) == AcceptClient(s) /\ UNCHANGED <<clientVars, calcVars>>
StepReadError(s) == ReadError(s) /\ UNCHANGED <<clientVars, calcVars>>
StepAccept(l) == PassiveAccept(l) /\ UNCHANGED <<clientVars, calcVars>>
StepAcceptError(l) == PassiveAcceptError(l) /\ UNCHANGED <<clientVars, calcVars>>

vars == <<serverVars, clientVars, calcVars>>

NoClient ==
    /\ cpc = "off"
    /\ cPath = <<>>
    /\ cOp = ""
    /\ c2s = <<>>
    /\ s2c = <<>>
    /\ cData = Nil
    /\ shut = {}
    /\ dialed = {}
    /\ rcvd = [i \in ConnIds |-> <<>>]
    /\ got = <<>>
    /\ cerr = ""
    /\ cfinal = 0

\* No encoder or decoder is being applied on its own.
NoCalc == fnArg = <<>> /\ fnRet = <<>>

Init == InitServer /\ NoClient /\ NoCalc

\* Any peer: whatever command line, whenever the control loop reads.
Next ==
    \/ \E s \in Clients :
         \/ StepAcceptClient(s) \/ StepReadError(s) \/ StepCleanup(s)
         \/ CmdUser(s) \/ CmdPass(s) \/ CmdSyst(s) \/ CmdFeat(s) \/ CmdPwd(s)
         \/ CmdType(s) \/ CmdOther(s) \/ CmdQuit(s)
         \/ CmdPasv(s) \/ CmdPort(s)
         \/ CmdList(s) \/ CmdRetr(s) \/ CmdStor(s)
         \/ CmdCwd(s) \/ CmdCdup(s)
         \/ StepPassiveSetup(s) \/ StepPortSetup(s)
         \/ StepListCopy(s) \/ StepRetrieveCopy(s) \/ StepStoreCopy(s)
         \/ StepDeferredClose(s) \/ StepDeferredClear(s)
    \/ \E l \in ConnIds : StepAccept(l) \/ StepAcceptError(l)

Spec == Init /\ [][Next]_vars

\* ------------------------------------------------------- the client's Get

\* The session the server opens for the client's control connection.
Peer == "c1"

\* Paths of the URLs given to Get, as parseURL leaves them (the leading "/"
\* stripped): a file of the root, a file of a directory, a missing file, and
\* the empty path.
GetPaths == { <<"a.txt">>, <<"d", "a.txt">>, <<"n.txt">>, <<>> }

\* filepath.Dir and filepath.Base of such a path; Dir's "." is the path of
\* no segment.
Dir(segs) == IF Len(segs) <= 1 THEN <<>> ELSE SubSeq(segs, 1, Len(segs) - 1)
Base(segs) == IF segs = <<>> THEN <<".">> ELSE <<segs[Len(segs)]>>

\* fmt's %d of a reply code, and strconv.Atoi of three digits.
RECURSIVE Digits(_)
Digits(n) == IF n < 10 THEN <<n>> ELSE Append(Digits(n \div 10), n % 10)
Atoi(ds) == ds[1] * 100 + ds[2] * 10 + ds[3]

\* FTPClient.readResponse on a one-line reply "%d %s\r\n": the code is
\* line[:3] and line[3] has to be the space, so a code that is not of three
\* digits is an error.
readResponse(r) ==
    LET ds == Digits(r.code)
    IN  IF Len(ds) = 3 THEN [err |-> FALSE, code |-> Atoi(ds), arg |-> r.arg]
        ELSE [err |-> TRUE, code |-> 0, arg |-> <<>>]

\* The write of FTPClient.sendCommand: one command line to the server.
sendCommand(verb, param) == c2s' = Append(c2s, [verb |-> verb, param |-> param])

\* The functions of the interactive shell that run a transfer.
ShellOps == {"listFiles", "downloadFile", "uploadFile"}

\* Get, Put or StartShell returns err and its deferred client.Close() runs
\* next; a function of the shell prints the error and returns to the prompt.
Fail(e) ==
    /\ cerr' = e
    /\ cpc' = IF cOp \in ShellOps THEN "prompt" ELSE "close"
    /\ UNCHANGED c2s

\* Get up to the net.Dial of Connect.
GetDial ==
    /\ cpc = "off"
    /\ cpc' = "welcome"
    /\ UNCHANGED <<serverVars, calcVars, cPath, cOp, c2s, s2c, cData, shut, dialed, rcvd, got, cerr, cfinal>>

\* Connect reads the welcome line (on an error it closes the connection and
\* Get returns); Login then sends USER.
ConnectWelcome ==
    /\ cpc = "welcome" /\ s2c # <<>>
    /\ s2c' = Tail(s2c)
    /\ IF readResponse(Head(s2c)).err
       THEN cerr' = "welcome" /\ cpc' = "done" /\ UNCHANGED c2s
       ELSE sendCommand("USER", Str(FALSE, <<"anonymous">>)) /\ cpc' = "user" /\ UNCHANGED cerr
    /\ UNCHANGED <<serverVars, calcVars, cPath, cOp, cData, shut, dialed, rcvd, got, cfinal>>

\* LoginUser, had PASS been sent after every reply to USER but 230.
LoginUserAnyCode ==
    /\ cpc = "user" /\ s2c # <<>>
    /\ s2c' = Tail(s2c)
    /\ LET r == readResponse(Head(s2c))
       IN  IF r.err THEN Fail("read")
           ELSE IF r.code = 230 THEN cpc' = "loggedIn" /\ UNCHANGED <<c2s, cerr>>
           ELSE sendCommand("PASS", Str(FALSE, <<"guest@">>)) /\ cpc' = "pass" /\ UNCHANGED cerr
    /\ UNCHANGED <<serverVars, calcVars, cPath, cOp, cData, shut, dialed, rcvd, got, cfinal>>

\* Login after USER: 230 ends it, anything but 331 fails it, 331 sends PASS.
LoginUser ==
    /\ cpc = "user" /\ s2c # <<>>
    /\ s2c' = Tail(s2c)
    /\ LET r == readResponse(Head(s2c))
       IN  IF r.err THEN Fail("read")
           ELSE IF r.code = 230 THEN cpc' = "loggedIn" /\ UNCHANGED <<c2s, cerr>>
           ELSE IF r.code # 331 THEN Fail("login")
           ELSE sendCommand("PASS", Str(FALSE, <<"guest@">>)) /\ cpc' = "pass" /\ UNCHANGED cerr
    /\ UNCHANGED <<serverVars, calcVars, cPath, cOp, cData, shut, dialed, rcvd, got, cfinal>>

\* Login after PASS: anything but 230 fails it.
LoginPass ==
    /\ cpc = "pass" /\ s2c # <<>>
    /\ s2c' = Tail(s2c)
    /\ LET r == readResponse(Head(s2c))
       IN  IF r.err THEN Fail("read")
           ELSE IF r.code # 230 THEN Fail("login")
           ELSE cpc' = "loggedIn" /\ UNCHANGED <<c2s, cerr>>
    /\ UNCHANGED <<serverVars, calcVars, cPath, cOp, cData, shut, dialed, rcvd, got, cfinal>>

\* Get and Put after Login: CWD to the directory of the path when it has
\* one, else TYPE I at once.
GetChangeDir ==
    /\ cpc = "loggedIn" /\ cOp \in {"Get", "Put"}
    /\ IF cPath # <<>> /\ Dir(cPath) # <<>>
       THEN sendCommand("CWD", Str(FALSE, Dir(cPath))) /\ cpc' = "cwd"
       ELSE sendCommand("TYPE", Str(FALSE, <<"I">>)) /\ cpc' = "type"
    /\ UNCHANGED <<serverVars, calcVars, cPath, cOp, s2c, cData, shut, dialed, rcvd, got, cerr, cfinal>>

\* The reply to CWD is read and its code ignored; TYPE I follows.
GetBinaryMode ==
    /\ cpc = "cwd" /\ s2c # <<>>
    /\ s2c' = Tail(s2c)
    /\ IF readResponse(Head(s2c)).err THEN Fail("read")
       ELSE sendCommand("TYPE", Str(FALSE, <<"I">>)) /\ cpc' = "type" /\ UNCHANGED cerr
    /\ UNCHANGED <<serverVars, calcVars, cPath, cOp, cData, shut, dialed, rcvd, got, cfinal>>

\* The reply to TYPE I is read and its code ignored; enterPassiveMode closes
\* a data connection the client still holds and sends PASV.  (Get, Put,
\* downloadFile and uploadFile all do this.)
GetPassive ==
    /\ cpc = "type" /\ s2c # <<>>
    /\ s2c' = Tail(s2c)
    /\ IF readResponse(Head(s2c)).err THEN Fail("read") /\ UNCHANGED <<cData, shut>>
       ELSE /\ shut' = IF cData # Nil THEN shut \cup {cData} ELSE shut
            /\ cData' = Nil
            /\ sendCommand("PASV", EmptyStr) /\ cpc' = "pasv" /\ UNCHANGED cerr
    /\ UNCHANGED <<serverVars, calcVars, cPath, cOp, dialed, rcvd, got, cfinal>>

\* enterPassiveMode, had it returned nil whatever the reply to PASV was and
\* whether or not the dial succeeded.
enterPassiveModeUnchecked ==
    /\ cpc = "pasv" /\ s2c # <<>>
    /\ s2c' = Tail(s2c)
    /\ LET r == readResponse(Head(s2c))
           port == r.arg[5] * 256 + r.arg[6]
           reached == { l \in ConnIds : lsn[l] = "listening" /\ ListenPort(l) = port }
       IN  IF r.err THEN Fail("read") /\ UNCHANGED <<cData, dialed>>
           ELSE IF r.code # 227 \/ Len(r.arg) # 6 \/ reached = {}
                THEN cpc' = "ready" /\ UNCHANGED <<cData, dialed, c2s, cerr>>
           ELSE /\ cData' = CHOOSE l \in reached : TRUE
                /\ dialed' = dialed \cup reached
                /\ cpc' = "ready"
                /\ UNCHANGED <<c2s, cerr>>
    /\ UNCHANGED <<serverVars, calcVars, cPath, cOp, shut, rcvd, got, cfinal>>

\* enterPassiveMode after PASV: the six numbers of a 227 reply give the port
\* p1*256 + p2, which is dialed; the connection is made as soon as a listener
\* has that port, accepted or not.
enterPassiveMode ==
    /\ cpc = "pasv" /\ s2c # <<>>
    /\ s2c' = Tail(s2c)
    /\ LET r == readResponse(Head(s2c))
           port == r.arg[5] * 256 + r.arg[6]
           reached == { l \in ConnIds : lsn[l] = "listening" /\ ListenPort(l) = port }
       IN  IF r.err THEN Fail("read") /\ UNCHANGED <<cData, dialed>>
           ELSE IF r.code # 227 \/ Len(r.arg) # 6
                THEN Fail("passive") /\ UNCHANGED <<cData, dialed>>
           ELSE IF reached = {} THEN Fail("dial") /\ UNCHANGED <<cData, dialed>>
           ELSE /\ cData' = CHOOSE l \in reached : TRUE
                /\ dialed' = dialed \cup reached
                /\ cpc' = "ready"
                /\ UNCHANGED <<c2s, cerr>>
    /\ UNCHANGED <<serverVars, calcVars, cPath, cOp, shut, rcvd, got, cfinal>>

\* Get after enterPassiveMode: RETR with the base name of the path.
GetSendRetr ==
    /\ cpc = "ready" /\ cOp = "Get"
    /\ sendCommand("RETR", Str(FALSE, Base(cPath)))
    /\ cpc' = "retr"
    /\ UNCHANGED <<serverVars, calcVars, cPath, cOp, s2c, cData, shut, dialed, rcvd, got, cerr, cfinal>>

\* Get and downloadFile after RETR: anything but 150 or 125 fails the
\* function; else the local file is created, which the host may refuse.
retrReply(created) ==
    /\ cpc = "retr" /\ s2c # <<>>
    /\ s2c' = Tail(s2c)
    /\ LET r == readResponse(Head(s2c))
       IN  IF r.err THEN Fail("read")
           ELSE IF r.code # 150 /\ r.code # 125 THEN Fail("retrieve")
           ELSE IF ~created THEN Fail("create")
           ELSE cpc' = "copy" /\ UNCHANGED <<c2s, cerr>>
    /\ got' = <<>>
    /\ UNCHANGED <<serverVars, calcVars, cPath, cOp, cData, shut, dialed, rcvd, cfinal>>

\* The same on a host that fails no call.
GetRetr == retrReply(TRUE)

\* The same on a host where os.Create may fail.
GetRetrCreate == \E created \in BOOLEAN : retrReply(created)

\* io.Copy(file, client.dataConn) fails: the function returns its error (Get)
\* or prints it (downloadFile) with the data connection neither closed nor
\* cleared and the reply after the transfer not read.
GetCopyError ==
    /\ cpc = "copy"
    /\ Fail("copy")
    /\ UNCHANGED <<serverVars, calcVars, cPath, cOp, s2c, cData, shut, dialed, rcvd, got, cfinal>>

\* io.Copy(file, client.dataConn) returns when the server has closed its end:
\* the local file holds what arrived.  The client closes its end and clears
\* its field.
GetCopy ==
    /\ cpc = "copy"
    /\ dconn[cData] = "closed"
    /\ got' = rcvd[cData]
    /\ shut' = shut \cup {cData}
    /\ cData' = Nil
    /\ cpc' = "final"
    /\ UNCHANGED <<serverVars, calcVars, cPath, cOp, c2s, s2c, dialed, rcvd, cerr, cfinal>>

\* Get and Put read the reply that follows the transfer: anything but 226 or
\* 250 is an error.  The function returns and its deferred client.Close()
\* runs.
GetFinal ==
    /\ cpc = "final" /\ cOp \in {"Get", "Put"}
    /\ s2c # <<>>
    /\ s2c' = Tail(s2c)
    /\ LET r == readResponse(Head(s2c))
       IN  /\ cfinal' = r.code
           /\ cerr' = IF r.err THEN "read"
                      ELSE IF r.code # 226 /\ r.code # 250 THEN "final" ELSE ""
    /\ cpc' = "close"
    /\ UNCHANGED <<serverVars, calcVars, cPath, cOp, c2s, cData, shut, dialed, rcvd, got>>

\* FTPClient.Close: a data connection still held is closed, QUIT is sent.
Close ==
    /\ cpc = "close"
    /\ shut' = IF cData # Nil THEN shut \cup {cData} ELSE shut
    /\ sendCommand("QUIT", EmptyStr)
    /\ cpc' = "quit"
    /\ UNCHANGED <<serverVars, calcVars, cPath, cOp, s2c, cData, dialed, rcvd, got, cerr, cfinal>>

\* FTPClient.Close after QUIT: the reply is read and the control connection
\* closed.
CloseQuit ==
    /\ cpc = "quit" /\ s2c # <<>>
    /\ s2c' = Tail(s2c)
    /\ cpc' = "done"
    /\ UNCHANGED <<serverVars, calcVars, cPath, cOp, c2s, cData, shut, dialed, rcvd, got, cerr, cfinal>>

\* Put after enterPassiveMode: os.Open of the local file, which may fail,
\* then STOR with the base name of the path.
PutSendStor ==
    /\ cpc = "ready" /\ cOp = "Put"
    /\ \E opened \in BOOLEAN :
          IF opened
          THEN sendCommand("STOR", Str(FALSE, Base(cPath))) /\ cpc' = "stor" /\ UNCHANGED cerr
          ELSE Fail("open")
    /\ UNCHANGED <<serverVars, calcVars, cPath, cOp, s2c, cData, shut, dialed, rcvd, got, cfinal>>

\* Put and uploadFile read the reply to STOR: anything but 150 or 125 ends
\* the function.
PutStor ==
    /\ cpc = "stor" /\ s2c # <<>>
    /\ s2c' = Tail(s2c)
    /\ LET r == readResponse(Head(s2c))
       IN  IF r.err THEN Fail("read")
           ELSE IF r.code # 150 /\ r.code # 125 THEN Fail("store")
           ELSE cpc' = "upload" /\ UNCHANGED <<c2s, cerr>>
    /\ UNCHANGED <<serverVars, calcVars, cPath, cOp, cData, shut, dialed, rcvd, got, cfinal>>

\* io.Copy(client.dataConn, file) has written the local file; the client
\* closes its end and clears its field.
PutCopy ==
    /\ cpc = "upload"
    /\ shut' = shut \cup {cData}
    /\ cData' = Nil
    /\ cpc' = "final"
    /\ UNCHANGED <<serverVars, calcVars, cPath, cOp, c2s, s2c, dialed, rcvd, got, cerr, cfinal>>

\* StartShell after Login: session.Start() prints its prompt.
sessionStart ==
    /\ cpc = "loggedIn" /\ cOp = "StartShell"
    /\ cpc' = "prompt"
    /\ UNCHANGED <<serverVars, calcVars, cPath, cOp, c2s, s2c, cData, shut, dialed, rcvd, got, cerr, cfinal>>

\* processCommand on "ls": listFiles starts with enterPassiveMode, which
\* closes a data connection the client still holds and sends PASV.
processList ==
    /\ cpc = "prompt"
    /\ cOp' = "listFiles"
    /\ shut' = IF cData # Nil THEN shut \cup {cData} ELSE shut
    /\ cData' = Nil
    /\ sendCommand("PASV", EmptyStr)
    /\ cpc' = "pasv"
    /\ cerr' = "" /\ cfinal' = 0
    /\ UNCHANGED <<serverVars, calcVars, cPath, s2c, dialed, rcvd, got>>

\* processCommand on "get": downloadFile starts with TYPE I.
processGet ==
    /\ cpc = "prompt"
    /\ cOp' = "downloadFile"
    /\ sendCommand("TYPE", Str(FALSE, <<"I">>))
    /\ cpc' = "type"
    /\ cerr' = "" /\ cfinal' = 0
    /\ UNCHANGED <<serverVars, calcVars, cPath, s2c, cData, shut, dialed, rcvd, got>>

\* processCommand on "put": uploadFile opens the local file, which may fail,
\* and then sends TYPE I.
processPut ==
    /\ cpc = "prompt"
    /\ cOp' = "uploadFile"
    /\ \E opened \in BOOLEAN :
          IF opened
          THEN sendCommand("TYPE", Str(FALSE, <<"I">>)) /\ cpc' = "type" /\ cerr' = ""
          ELSE cerr' = "open" /\ UNCHANGED <<cpc, c2s>>
    /\ cfinal' = 0
    /\ UNCHANGED <<serverVars, calcVars, cPath, s2c, cData, shut, dialed, rcvd, got>>

\* processCommand on "quit": Start returns nil and the deferred
\* client.Close() of StartShell runs.
processQuit ==
    /\ cpc = "prompt"
    /\ cOp' = "StartShell"
    /\ cpc' = "close"
    /\ cerr' = ""
    /\ UNCHANGED <<serverVars, calcVars, cPath, c2s, s2c, cData, shut, dialed, rcvd, got, cfinal>>

\* listFiles after enterPassiveMode: LIST.
listFilesSend ==
    /\ cpc = "ready" /\ cOp = "listFiles"
    /\ sendCommand("LIST", EmptyStr)
    /\ cpc' = "list"
    /\ UNCHANGED <<serverVars, calcVars, cPath, cOp, s2c, cData, shut, dialed, rcvd, got, cerr, cfinal>>

\* listFiles reads the reply to LIST: anything but 150 or 125 ends it.
listFilesReply ==
    /\ cpc = "list" /\ s2c # <<>>
    /\ s2c' = Tail(s2c)
    /\ LET r == readResponse(Head(s2c))
       IN  IF r.err THEN Fail("read")
           ELSE IF r.code # 150 /\ r.code # 125 THEN Fail("list")
           ELSE cpc' = "listing" /\ UNCHANGED <<c2s, cerr>>
    /\ UNCHANGED <<serverVars, calcVars, cPath, cOp, cData, shut, dialed, rcvd, got, cfinal>>

\* listFiles prints lines until ReadString fails, which it does once the
\* peer has closed its end; the client closes its end and clears its field.
listFilesRead ==
    /\ cpc = "listing"
    /\ dconn[cData] = "closed"
    /\ shut' = shut \cup {cData}
    /\ cData' = Nil
    /\ cpc' = "final"
    /\ UNCHANGED <<serverVars, calcVars, cPath, cOp, c2s, s2c, dialed, rcvd, got, cerr, cfinal>>

\* downloadFile after enterPassiveMode: RETR with the name typed.
downloadFileSend ==
    /\ cpc = "ready" /\ cOp = "downloadFile"
    /\ sendCommand("RETR", Str(FALSE, cPath))
    /\ cpc' = "retr"
    /\ UNCHANGED <<serverVars, calcVars, cPath, cOp, s2c, cData, shut, dialed, rcvd, got, cerr, cfinal>>

\* uploadFile after enterPassiveMode: STOR with the name typed.
uploadFileSend ==
    /\ cpc = "ready" /\ cOp = "uploadFile"
    /\ sendCommand("STOR", Str(FALSE, cPath))
    /\ cpc' = "stor"
    /\ UNCHANGED <<serverVars, calcVars, cPath, cOp, s2c, cData, shut, dialed, rcvd, got, cerr, cfinal>>

\* listFiles, downloadFile and uploadFile read the reply that follows the
\* transfer: a code other than 226 or 250 is printed, and the function
\* returns to the prompt either way.
shellFinal ==
    /\ cpc = "final" /\ cOp \in ShellOps
    /\ s2c # <<>>
    /\ s2c' = Tail(s2c)
    /\ LET r == readResponse(Head(s2c))
       IN  /\ cfinal' = r.code
           /\ cerr' = IF r.err THEN "read" ELSE ""
    /\ cpc' = "prompt"
    /\ UNCHANGED <<serverVars, calcVars, cPath, cOp, c2s, cData, shut, dialed, rcvd, got>>

\* What a step of the control loop wrote on the control connection, and what
\* it wrote on the data connection.
Sent(s) == SubSeq(resp'[s], Len(Out(s)) + 1, Len(resp'[s]))
SentData(s) == SubSeq(wrote'[s], Len(wrote[s]) + 1, Len(wrote'[s]))

\* The server's side of the same run.  Start's accept loop hands the dialed
\* connection to handleClient.
ServeClient(s) ==
    /\ cpc # "off"
    /\ AcceptClient(s)
    /\ s2c' = s2c \o resp'[s]
    /\ UNCHANGED <<calcVars, cpc, cPath, cOp, c2s, cData, shut, dialed, rcvd, got, cerr, cfinal>>

\* The control loop reads the next command line the client sent.
ServeCommand(s) ==
    /\ pc[s] = "read" /\ c2s # <<>>
    /\ handleCommand(s, Head(c2s).verb, Head(c2s).param, EnvOK)
    /\ c2s' = Tail(c2s)
    /\ s2c' = s2c \o Sent(s)
    /\ UNCHANGED <<calcVars, cpc, cPath, cOp, cData, shut, dialed, rcvd, got, cerr, cfinal>>

ServeRetrieveCopy(s) ==
    /\ RetrieveCopy(s, EnvOK)
    /\ s2c' = s2c \o Sent(s)
    /\ rcvd' = [rcvd EXCEPT ![dataConn[s]] = @ \o SentData(s)]
    /\ UNCHANGED <<calcVars, cpc, cPath, cOp, c2s, cData, shut, dialed, got, cerr, cfinal>>

ServeDeferredClose(s) == DeferredClose(s) /\ UNCHANGED <<clientVars, calcVars>>
ServeDeferredClear(s) == DeferredClear(s) /\ UNCHANGED <<clientVars, calcVars>>
ServeCleanup(s) == Cleanup(s) /\ UNCHANGED <<clientVars, calcVars>>

\* listener.Accept() returns once the client's dial has reached the listener.
ServePassiveAccept(l) ==
    /\ l \in dialed
    /\ PassiveAccept(l)
    /\ UNCHANGED <<clientVars, calcVars>>

InitGet ==
    /\ InitServer
    /\ cpc = "off"
    /\ cPath \in GetPaths
    /\ cOp = "Get"
    /\ c2s = <<>>
    /\ s2c = <<>>
    /\ cData = Nil
    /\ shut = {}
    /\ dialed = {}
    /\ rcvd = [i \in ConnIds |-> <<>>]
    /\ got = <<>>
    /\ cerr = ""
    /\ cfinal = 0
    /\ NoCalc

NextGet ==
    \/ GetDial \/ ConnectWelcome \/ LoginUser \/ LoginPass
    \/ GetChangeDir \/ GetBinaryMode \/ GetPassive \/ enterPassiveMode
    \/ GetSendRetr \/ GetRetr \/ GetCopy \/ GetFinal \/ Close \/ CloseQuit
    \/ ServeClient(Peer) \/ ServeCommand(Peer) \/ ServeRetrieveCopy(Peer)
    \/ ServeDeferredClose(Peer) \/ ServeDeferredClear(Peer) \/ ServeCleanup(Peer)
    \/ \E l \in ConnIds : ServePassiveAccept(l)

\* One run of Get against a freshly started server, with a host that fails
\* no call.
SpecGet == InitGet /\ [][NextGet]_vars

\* ------------------------------------------------------------------ claims

\* A step in which the control loop of s reads a command line and runs
\* handleCommand on it.  (A command that repeats the one before it with the
\* same outcome changes nothing and is a stuttering step.)
Processes(s) ==
    /\ pc[s] = "read"
    /\ \/ cur'[s] # cur[s]
       \/ resp'[s] # resp[s]
       \/ pc'[s] \notin {"read", "cleanup"}

Codes(s) == [i \in 1..Len(resp[s]) |-> resp[s][i].code]

LoginVerbs == {"LIST", "RETR", "STOR", "CWD", "CDUP"}
TransferVerbs == {"LIST", "RETR", "STOR"}

\* C1: before any PASS was processed, each of LIST, RETR, STOR, CWD and CDUP
\* is answered by one 530 reply and nothing else: authenticated, workDir and
\* dataConn keep their values, no file is touched, and the loop is back at
\* its read.
C1_Unauthenticated530 ==
    [][\A s \in Addrs :
         (Processes(s) /\ ~authenticated[s] /\ cur'[s].verb \in LoginVerbs)
         => /\ resp'[s] = <<Reply(530, "Not logged in")>>
            /\ authenticated'[s] = authenticated[s]
            /\ workDir'[s] = workDir[s]
            /\ dataConn'[s] = dataConn[s]
            /\ fsLog'[s] = <<>>
            /\ files' = files
            /\ pc'[s] = "read"]_vars

\* An unauthenticated session whose data-channel slot is occupied was
\* refused a STOR.
C1_Witness ==
    \E s \in Addrs :
        /\ ~authenticated[s] /\ dataConn[s] # Nil
        /\ cur[s].verb = "STOR" /\ Codes(s) = <<530>>

\* C2: authenticated starts false, USER leaves it as it is, PASS sets it
\* (any password, a USER before it or not), and once true it stays true.
C2_AuthLinear ==
    [][\A s \in Addrs :
         /\ (pc[s] = "none" /\ pc'[s] = "read") => ~authenticated'[s]
         /\ authenticated[s] => authenticated'[s]
         /\ (Processes(s) /\ cur'[s].verb = "PASS") => authenticated'[s]
         /\ (Processes(s) /\ cur'[s].verb = "USER") => authenticated'[s] = authenticated[s]
         /\ authenticated'[s] # authenticated[s] => (Processes(s) /\ cur'[s].verb = "PASS")]_vars

\* A session logged in by a PASS with an empty password.
C2_Witness ==
    \E s \in Addrs :
        authenticated[s] /\ cur[s].verb = "PASS" /\ cur[s].param = EmptyStr /\ pc[s] = "read"

\* The data connections accepted or dialed for s and not closed.
Live(s) == { i \in ConnIds : owner[i] = s /\ dconn[i] = "open" }

\* C3: a session never has more than one live data connection.
C3_AtMostOneLive == \A s \in Addrs : Cardinality(Live(s)) <= 1

\* The passive listeners of s still accepting.
Listening(s) == { i \in ConnIds : owner[i] = s /\ lsn[i] = "listening" }

\* C4: a session never has two passive listeners accepting at once (the
\* listener of a first PASV is closed before a second PASV opens its own).
C4_OneListener == \A s \in Addrs : Cardinality(Listening(s)) <= 1

\* C5: when the control loop is at its read after an authenticated LIST,
\* RETR or STOR that found a live data channel, the connection of that
\* transfer is closed and the slot is empty.
C5_ClearedBeforeNext ==
    \A s \in Addrs :
        (pc[s] = "read" /\ cur[s].verb \in TransferVerbs /\ xconn[s] # Nil)
        => (dconn[xconn[s]] = "closed" /\ dataConn[s] = Nil)

\* C6: an authenticated RETR on a live data channel whose file cannot be
\* opened has, when its handler returns, replied 550 and nothing else,
\* written no byte on the data channel, closed the data channel it found
\* and cleared the slot.
C6_RetrNotFound ==
    [][\A s \in Addrs :
         (/\ pc[s] = "deferClear" /\ pc'[s] = "read"
          /\ cur[s].verb = "RETR"
          /\ fsLog[s][1] = FsCall("open", FullPath(cur[s].param), FALSE))
         => /\ Codes(s) = <<550>>
            /\ wrote[s] = <<>>
            /\ dconn'[xconn[s]] = "closed"
            /\ dataConn'[s] = Nil]_vars

\* C7: an authenticated LIST, RETR or STOR read while the slot is empty
\* replies one 425 and does nothing else.
C7_NoChannel425 ==
    [][\A s \in Addrs :
         (/\ Processes(s) /\ authenticated[s] /\ dataConn[s] = Nil
          /\ cur'[s].verb \in TransferVerbs)
         => /\ resp'[s] = <<Reply(425, "Use PORT or PASV first")>>
            /\ fsLog'[s] = <<>>
            /\ files' = files
            /\ wrote'[s] = <<>>
            /\ pc'[s] = "read"
            /\ UNCHANGED <<authenticated, workDir, dataConn, fh, chanVars, registry>>]_vars

\* A STOR of a new file was refused with 425 while a passive accept was
\* pending, and the file does not exist.
C7_Witness ==
    \E s \in Addrs :
        /\ authenticated[s] /\ cur[s].verb = "STOR" /\ Codes(s) = <<425>>
        /\ cur[s].param = Str(FALSE, <<"n.txt">>)
        /\ <<"srv", "n.txt">> \notin DOMAIN files
        /\ Listening(s) # {}

\* The copy of a STOR ended at a clean end of stream after no byte.
EmptyUpload(s) ==
    /\ cur[s].verb = "STOR" /\ xconn[s] # Nil
    /\ \A i \in 1..Len(fsLog[s]) :
          fsLog[s][i].op = "receive" => (fsLog[s][i].ok /\ fsLog[s][i].n = 0)

\* C9 as stated: every authenticated STOR on a live data channel whose peer
\* sends nothing and closes has, when its handler returns, created the file
\* at RootDir joined with the cleaned parameter, empty, and replied 150 and
\* then 226.
C9_EmptyStoreAsStated ==
    \A s \in Addrs :
        (pc[s] = "deferClear" /\ EmptyUpload(s))
        => /\ Codes(s) = <<150, 226>>
           /\ FullPath(cur[s].param) \in DOMAIN files
           /\ files[FullPath(cur[s].param)] = <<>>

\* C9 amended: the same, for a destination that os.Create can create (its
\* parent is a directory and it is not a directory itself).
C9_EmptyStore ==
    \A s \in Addrs :
        (pc[s] = "deferClear" /\ EmptyUpload(s) /\ CanCreate(FullPath(cur[s].param)))
        => /\ Codes(s) = <<150, 226>>
           /\ FullPath(cur[s].param) \in DOMAIN files
           /\ files[FullPath(cur[s].param)] = <<>>

\* An empty STOR of n.txt has gone through its copy: the file is there, empty,
\* and 150 and 226 were written.
C9_Witness ==
    \E s \in Addrs :
        /\ pc[s] = "deferClear" /\ EmptyUpload(s)
        /\ cur[s].param = Str(FALSE, <<"n.txt">>)
        /\ Codes(s) = <<150, 226>>
        /\ files[<<"srv", "n.txt">>] = <<>>

\* C10: a CWD or CDUP whose target (RootDir joined with the normalized
\* virtual path) is not a directory replies 550 and leaves workDir as it
\* was; workDir changes only with a 250 reply, and then to the normalized
\* target.
C10_ChangeDir ==
    [][\A s \in Addrs :
         /\ (Processes(s) /\ authenticated[s] /\ cur'[s].verb \in {"CWD", "CDUP"})
            => LET param == IF cur'[s].verb = "CDUP" THEN Str(FALSE, <<"..">>)
                            ELSE cur'[s].param
                   target == NewPath(workDir[s], param)
               IN  IF IsDir(RootDir.segs \o target.segs)
                   THEN /\ resp'[s] = <<Reply(250, "Directory successfully changed")>>
                        /\ workDir'[s] = target
                   ELSE /\ resp'[s] = <<Reply(550, "Directory not found")>>
                        /\ workDir'[s] = workDir[s]
         /\ (pc[s] # "none" /\ workDir'[s] # workDir[s])
            => (Processes(s) /\ cur'[s].verb \in {"CWD", "CDUP"} /\ resp'[s][1].code = 250)]_vars

\* A CWD issued in /d was refused and the session is still in /d.
C10_Witness ==
    \E s \in Addrs :
        /\ cur[s].verb = "CWD" /\ Codes(s) = <<550>>
        /\ workDir[s] = Str(TRUE, <<"d">>)

\* C8 (as stated): whenever Get of a.txt has returned, it returned no error,
\* the local file holds exactly the bytes of a.txt, and the reply read after
\* the transfer carried 226 or 250 -- whatever the order of the accept
\* goroutine and the control loop.
C8_GetDownloads ==
    (cpc = "done" /\ cPath = <<"a.txt">>) =>
        /\ cerr = ""
        /\ got = InitFiles[<<"srv", "a.txt">>]
        /\ cfinal \in {226, 250}

\* ------------------------------------------- a session that only walks

\* Segments a peer puts in a CWD parameter, and how many of them at most.
MaxSegs == 3
SegNames == {"..", "d", "n.txt"}

RECURSIVE SegSeqs(_)
SegSeqs(n) ==
    IF n = 0 THEN {<<>>}
    ELSE SegSeqs(n - 1) \cup { Append(q, x) : q \in SegSeqs(n - 1), x \in SegNames }

\* Absolute, relative and empty parameters with any number of ".." up to
\* MaxSegs segments.
WalkParams == { Str(a, q) : a \in BOOLEAN, q \in SegSeqs(MaxSegs) }

WalkAccept(s) ==
    /\ AcceptClient(s)
    /\ UNCHANGED <<clientVars, calcVars>>

WalkPass(s) ==
    /\ pc[s] = "read"
    /\ handleCommand(s, "PASS", EmptyStr, EnvOK)
    /\ UNCHANGED <<clientVars, calcVars>>

WalkCwd(s) ==
    /\ pc[s] = "read"
    /\ \E p \in WalkParams : handleCommand(s, "CWD", p, EnvOK)
    /\ UNCHANGED <<clientVars, calcVars>>

WalkCdup(s) ==
    /\ pc[s] = "read"
    /\ handleCommand(s, "CDUP", EmptyStr, EnvOK)
    /\ UNCHANGED <<clientVars, calcVars>>

NextWalk == \E s \in Clients : WalkAccept(s) \/ WalkPass(s) \/ WalkCwd(s) \/ WalkCdup(s)

\* One session whose peer logs in and sends CWD and CDUP only.
SpecWalk == Init /\ [][NextWalk]_vars

\* C11: in every reachable state the workDir of every session starts with
\* "/" and has no ".." segment, whatever CWD parameters and CDUP commands
\* were processed; and a CDUP or a CWD .. processed at "/" leaves it at "/".
C11_WorkDirRooted ==
    [][\A s \in Addrs :
         /\ HasSlashPrefix(workDir'[s])
         /\ \A i \in 1..Len(workDir'[s].segs) : workDir'[s].segs[i] # ".."
         /\ ( /\ Processes(s) /\ authenticated[s] /\ workDir[s] = Slash
              /\ \/ cur'[s].verb = "CDUP"
                 \/ cur'[s].verb = "CWD" /\ cur'[s].param = Str(FALSE, <<"..">>) )
            => workDir'[s] = Slash]_vars

\* A CDUP was accepted at "/" and the session is still there.
C11_Witness ==
    \E s \in Addrs :
        /\ authenticated[s] /\ cur[s].verb = "CDUP" /\ Codes(s) = <<250>>
        /\ workDir[s] = Slash

\* C12 (as stated): once handleClient's cleanup has run for a session, no
\* data connection accepted or dialed for it is open, then or later -- the
\* one a still pending passive accept takes afterwards included.
C12_ClosedAtTeardown == \A s \in Addrs : pc[s] = "closed" => Live(s) = {}

\* A step in which a PASV or PORT of s comes to its end: the handler
\* returns to the command loop, at once or after closing the old connection.
EndsSetup(s) ==
    /\ \/ Processes(s)
       \/ pc[s] = "clearSlot"
    /\ pc'[s] = "read"
    /\ cur'[s].verb \in {"PASV", "PORT"}

MaxPort == 65535
Hosts == { <<Digits(127), Digits(0), Digits(0), Digits(1)>>,
           <<Digits(192), Digits(168), Digits(10), Digits(255)>> }

\* strconv.Atoi of a decimal string.
RECURSIVE ParseInt(_)
ParseInt(ds) ==
    IF ds = <<>> THEN 0 ELSE ParseInt(SubSeq(ds, 1, Len(ds) - 1)) * 10 + ds[Len(ds)]

\* handlePassive: the six fields between the parentheses of its 227 reply,
\* "%s,%s,%s,%s,%d,%d" of the host parts, port / 256 and port % 256.
PassiveFields(host, port) ==
    <<host[1], host[2], host[3], host[4], Digits(port \div 256), Digits(port % 256)>>

\* enterPassiveMode: every field through Atoi, the address printed again
\* with "%d.%d.%d.%d", the port nums[4]*256 + nums[5].
PassiveTarget(parts) ==
    LET nums == [i \in 1..6 |-> ParseInt(parts[i])]
    IN  <<Digits(nums[1]), Digits(nums[2]), Digits(nums[3]), Digits(nums[4]), PortOf(nums)>>

\* handlePort: the first four fields joined as they are, the port from Atoi
\* of the last two.
PortTarget(parts) ==
    LET nums == [i \in 1..6 |-> IF i <= 4 THEN 0 ELSE ParseInt(parts[i])]
    IN  <<parts[1], parts[2], parts[3], parts[4], PortOf(nums)>>

InitTuple ==
    /\ InitServer /\ NoClient
    /\ fnArg \in [host : Hosts, port : 0..MaxPort]
    /\ fnRet = [fields |-> <<>>, client |-> <<>>, server |-> <<>>]

\* The server's PASV handler writes the tuple of the address.
TupleEncode ==
    /\ fnRet.fields = <<>>
    /\ fnRet' = [fnRet EXCEPT !.fields = PassiveFields(fnArg.host, fnArg.port)]
    /\ UNCHANGED <<serverVars, clientVars, fnArg>>

\* The client's PASV parser reads it.
TupleClientDecode ==
    /\ fnRet.fields # <<>> /\ fnRet.client = <<>>
    /\ fnRet' = [fnRet EXCEPT !.client = PassiveTarget(fnRet.fields)]
    /\ UNCHANGED <<serverVars, clientVars, fnArg>>

\* The server's PORT parser reads it.
TupleServerDecode ==
    /\ fnRet.fields # <<>> /\ fnRet.server = <<>>
    /\ fnRet' = [fnRet EXCEPT !.server = PortTarget(fnRet.fields)]
    /\ UNCHANGED <<serverVars, clientVars, fnArg>>

NextTuple == TupleEncode \/ TupleClientDecode \/ TupleServerDecode

SpecTuple == InitTuple /\ [][NextTuple]_vars

\* The address and port a decoder returned are the ones encoded.
SameTarget(t) ==
    /\ SubSeq(t, 1, 4) = fnArg.host
    /\ t[5] = fnArg.port

\* C14: for every port in 0..65535 the two numbers the PASV handler writes
\* are in 0..255, and the client's PASV parser and the server's PORT parser
\* both get the port back as p1*256 + p2 and the four address fields
\* unchanged.
C14_TupleRoundTrip ==
    /\ fnRet.fields # <<>> =>
          /\ ParseInt(fnRet.fields[5]) \in 0..255
          /\ ParseInt(fnRet.fields[6]) \in 0..255
          /\ ParseInt(fnRet.fields[5]) = fnArg.port \div 256
          /\ ParseInt(fnRet.fields[6]) = fnArg.port % 256
    /\ fnRet.client # <<>> => SameTarget(fnRet.client)
    /\ fnRet.server # <<>> => SameTarget(fnRet.server)

\* Port 65535 of 192.168.10.255 went through both decoders.
C14_Witness ==
    /\ fnArg.port = MaxPort /\ fnArg.host[1] = Digits(192)
    /\ fnRet.client # <<>> /\ fnRet.server # <<>>
    /\ fnRet.fields[5] = <<2, 5, 5>> /\ fnRet.fields[6] = <<2, 5, 5>>

\* --------------------------------------- the client's decoder on its own

\* A line is the sequence of its bytes, each a one-character string; "CR"
\* and "LF" stand for the two bytes that end a line.
DigitChars == <<"0", "1", "2", "3", "4", "5", "6", "7", "8", "9">>
IsDigit(c) == \E d \in 1..10 : DigitChars[d] = c
DigitVal(c) == (CHOOSE d \in 1..10 : DigitChars[d] = c) - 1

\* strconv.Atoi: an optional sign, then digits only and at least one.
Unsigned(str) == IF str # <<>> /\ str[1] \in {"+", "-"} THEN Tail(str) ELSE str
AtoiOk(str) ==
    /\ Unsigned(str) # <<>>
    /\ \A i \in 1..Len(Unsigned(str)) : IsDigit(Unsigned(str)[i])
AtoiVal(str) ==
    LET body == Unsigned(str)
        mag == ParseInt([i \in 1..Len(body) |-> DigitVal(body[i])])
    IN  IF str[1] = "-" THEN 0 - mag ELSE mag

\* strconv.Itoa, and fmt's %d.
Itoa(n) ==
    LET ds == Digits(IF n < 0 THEN 0 - n ELSE n)
        str == [i \in 1..Len(ds) |-> DigitChars[ds[i] + 1]]
    IN  IF n < 0 THEN <<"-">> \o str ELSE str

\* The loop of readResponse over the lines after an opening "CODE-": the
\* index of the first line of at least four bytes whose first three are
\* strconv.Itoa(code) and whose fourth is a space; 0 when the stream ends
\* before one comes.
RECURSIVE ClosingLine(_, _, _)
ClosingLine(lines, i, code) ==
    IF i > Len(lines) THEN 0
    ELSE IF /\ Len(lines[i]) >= 4
            /\ SubSeq(lines[i], 1, 3) = Itoa(code)
            /\ lines[i][4] = " "
         THEN i
         ELSE ClosingLine(lines, i + 1, code)

\* FTPClient.readResponse on the lines the control connection delivers
\* (ReadString fails at the end of the stream): the error, the code, and the
\* number of lines consumed.
readLines(lines) ==
    IF lines = <<>> THEN [err |-> TRUE, code |-> 0, used |-> 0]
    ELSE LET line == lines[1]
         IN  IF Len(line) < 4 \/ (line[4] # " " /\ line[4] # "-")
             THEN [err |-> TRUE, code |-> 0, used |-> 1]
             ELSE IF ~AtoiOk(SubSeq(line, 1, 3))
             THEN [err |-> TRUE, code |-> 0, used |-> 1]
             ELSE LET code == AtoiVal(SubSeq(line, 1, 3))
                      last == ClosingLine(lines, 2, code)
                  IN  IF line[4] # "-" THEN [err |-> FALSE, code |-> code, used |-> 1]
                      ELSE IF last = 0
                           THEN [err |-> TRUE, code |-> 0, used |-> Len(lines)]
                           ELSE [err |-> FALSE, code |-> code, used |-> last]

\* The decoder is applied to the lines in fnArg.
Decode ==
    /\ fnRet = <<>>
    /\ fnRet' = <<readLines(fnArg)>>
    /\ UNCHANGED <<serverVars, clientVars, fnArg>>

\* First lines of up to MaxLine bytes before the line feed, over digits,
\* signs, the two separators and another byte.
MaxLine == 4
LineBytes == {"1", "2", "+", "-", " ", "x"}

RECURSIVE ByteSeqs(_, _)
ByteSeqs(B, n) ==
    IF n = 0 THEN {<<>>}
    ELSE ByteSeqs(B, n - 1) \cup { Append(q, x) : q \in ByteSeqs(B, n - 1), x \in B }

FirstLines == { Append(q, "LF") : q \in ByteSeqs(LineBytes, MaxLine) }

\* What may follow the first line: nothing, or one line that closes a block.
LineTails == { <<>>, << <<"1", "1", "2", " ", "LF">> >>, << <<"-", "1", "2", " ", "LF">> >> }

InitLine ==
    /\ InitServer /\ NoClient
    /\ fnArg \in { <<f>> \o t : f \in FirstLines, t \in LineTails }
    /\ fnRet = <<>>

SpecLine == InitLine /\ [][Decode]_vars

\* C15 (as stated): the decoder returns without error only for a first line
\* whose first three bytes are all digits and whose fourth byte is a space
\* or a hyphen, and the code it returns is the value of the three digits.
C15_StrictFirstLine ==
    (fnRet # <<>> /\ ~fnRet[1].err) =>
        LET line == fnArg[1]
        IN  /\ Len(line) >= 4
            /\ \A i \in 1..3 : IsDigit(line[i])
            /\ line[4] \in {" ", "-"}
            /\ fnRet[1].code = DigitVal(line[1]) * 100 + DigitVal(line[2]) * 10 + DigitVal(line[3])

\* Opening codes of three digits, leading zeros included, and the lines
\* that may follow the opening line of a block opened with code c, when d is
\* another code: lines that close it, lines that open it again, lines of
\* the other code, and continuation text.
MaxFollow == 2
OpenCodes == { <<a, b, c>> : a \in {"0", "1"}, b \in {"0", "1"}, c \in {"0", "2"} }
OtherCode(c) == IF c[3] = "0" THEN <<c[1], c[2], "2">> ELSE <<c[1], c[2], "0">>
FollowLines(c) ==
    { c \o <<" ", "x", "CR", "LF">>,
      c \o <<"-", "x", "CR", "LF">>,
      OtherCode(c) \o <<" ", "x", "CR", "LF">>,
      <<" ", "x", "CR", "LF">>,
      c \o <<"CR", "LF">> }

RECURSIVE LineSeqs(_, _)
LineSeqs(L, n) ==
    IF n = 0 THEN {<<>>}
    ELSE LineSeqs(L, n - 1) \cup { Append(q, x) : q \in LineSeqs(L, n - 1), x \in L }

InitBlock ==
    /\ InitServer /\ NoClient
    /\ fnArg \in UNION { { <<c \o <<"-", "x", "CR", "LF">> >> \o q : q \in LineSeqs(FollowLines(c), MaxFollow) }
                         : c \in OpenCodes }
    /\ fnRet = <<>>

SpecBlock == InitBlock /\ [][Decode]_vars

\* The first line after the opening one whose three leading bytes are those
\* of the opening line and whose fourth byte is a space; 0 if there is none.
RECURSIVE FirstCloser(_, _)
FirstCloser(lines, i) ==
    IF i > Len(lines) THEN 0
    ELSE IF SubSeq(lines[i], 1, 3) = SubSeq(lines[1], 1, 3) /\ lines[i][4] = " " THEN i
         ELSE FirstCloser(lines, i + 1)

\* C16 (as stated): for a block opened by CODE-, with any three-digit code
\* (leading zeros included), the decoder consumes the lines up to and
\* including the first later line that starts with the same three digits
\* and a space, stops there and returns the code; the lines in between are
\* continuations.
C16_BlockEndsAtCloser ==
    (fnRet # <<>> /\ FirstCloser(fnArg, 2) # 0) =>
        /\ ~fnRet[1].err
        /\ fnRet[1].used = FirstCloser(fnArg, 2)
        /\ fnRet[1].code = DigitVal(fnArg[1][1]) * 100 + DigitVal(fnArg[1][2]) * 10
                           + DigitVal(fnArg[1][3])

\* ------------------------------------------ multi-line replies, both ends

\* writeMultiResponse, had the middle lines been written as they are.
writeMultiResponseBare(code, messages) ==
    [i \in 1..(IF Len(messages) = 1 THEN 2 ELSE Len(messages)) |->
        IF i = 1 THEN Itoa(code) \o <<"-">> \o messages[1] \o <<"CR", "LF">>
        ELSE IF i < Len(messages) THEN messages[i] \o <<"CR", "LF">>
        ELSE Itoa(code) \o <<" ">> \o messages[Len(messages)] \o <<"CR", "LF">>]

\* Session.writeMultiResponse: "%d-%s\r\n" of the first message, " %s\r\n"
\* of those between the first and the last, "%d %s\r\n" of the last (which
\* is the first again when there is only one).
writeMultiResponse(code, messages) ==
    [i \in 1..(IF Len(messages) = 1 THEN 2 ELSE Len(messages)) |->
        IF i = 1 THEN Itoa(code) \o <<"-">> \o messages[1] \o <<"CR", "LF">>
        ELSE IF i < Len(messages) THEN <<" ">> \o messages[i] \o <<"CR", "LF">>
        ELSE Itoa(code) \o <<" ">> \o messages[Len(messages)] \o <<"CR", "LF">>]

\* Codes and messages handed to writeMultiResponse: messages without line
\* breaks, among them text that looks like a closing or an opening line.
MaxMsgs == 3
ReplyCodes == 100..599
MessagesOf(code) ==
    { <<>>, <<"x">>, Itoa(code) \o <<" ", "x">>, Itoa(code) \o <<"-", "x">> }

RECURSIVE MessageLists(_, _)
MessageLists(M, n) ==
    IF n = 1 THEN { <<m>> : m \in M }
    ELSE MessageLists(M, n - 1) \cup { Append(q, m) : q \in MessageLists(M, n - 1), m \in M }

\* The reply the server writes next on the same connection.
NextReplyLine == <<"2", "2", "0", " ", "x", "CR", "LF">>

InitMulti ==
    /\ InitServer /\ NoClient
    /\ fnArg \in UNION { [code : {c}, messages : MessageLists(MessagesOf(c), MaxMsgs)]
                         : c \in ReplyCodes }
    /\ fnRet = [block |-> <<>>, res |-> <<>>]

\* The server writes the block.
MultiWrite ==
    /\ fnRet.block = <<>>
    /\ fnRet' = [fnRet EXCEPT !.block = writeMultiResponse(fnArg.code, fnArg.messages)]
    /\ UNCHANGED <<serverVars, clientVars, fnArg>>

\* The client reads one response from the block and what follows it.
MultiRead ==
    /\ fnRet.block # <<>> /\ fnRet.res = <<>>
    /\ fnRet' = [fnRet EXCEPT !.res = <<readLines(fnRet.block \o <<NextReplyLine>>)>>]
    /\ UNCHANGED <<serverVars, clientVars, fnArg>>

NextMulti == MultiWrite \/ MultiRead

SpecMulti == InitMulti /\ [][NextMulti]_vars

\* C17: for every code in 100..599 and every non-empty list of messages
\* without line breaks, the block of writeMultiResponse opens with CODE- and
\* closes with CODE and a space, and readResponse returns that code as one
\* response and consumes exactly the lines of the block.
C17_MultiRoundTrip ==
    /\ fnRet.block # <<>> =>
          LET first == fnRet.block[1]
              last == fnRet.block[Len(fnRet.block)]
          IN  /\ SubSeq(first, 1, 4) = Itoa(fnArg.code) \o <<"-">>
              /\ SubSeq(last, 1, 4) = Itoa(fnArg.code) \o <<" ">>
    /\ fnRet.res # <<>> =>
          /\ ~fnRet.res[1].err
          /\ fnRet.res[1].code = fnArg.code
          /\ fnRet.res[1].used = Len(fnRet.block)

\* A block of three lines whose middle message looks like a closing line
\* was read as one response.
C17_Witness ==
    /\ fnArg.code = 211 /\ Len(fnArg.messages) = 3
    /\ fnArg.messages[2] = <<"2", "1", "1", " ", "x">>
    /\ fnRet.res # <<>> /\ fnRet.res[1].used = 3 /\ fnRet.res[1].code = 211

\* ------------------------------------------- Login against any server

\* Reply codes a server may send, 99 standing for a line readResponse
\* rejects.
PeerCodes == 99..600

\* Some server answers the client, which is waiting for a reply, with any
\* code; the commands stay in c2s as the record of what was sent.
PeerReply ==
    /\ cpc \in {"welcome", "user", "pass"} /\ s2c = <<>>
    /\ \E code \in PeerCodes : s2c' = <<Reply(code, "")>>
    /\ UNCHANGED <<serverVars, calcVars, cpc, cPath, cOp, c2s, cData, shut, dialed, rcvd, got, cerr, cfinal>>

NextLogin == GetDial \/ PeerReply \/ ConnectWelcome \/ LoginUser \/ LoginPass

\* Connect and Login of a Get, the server being anything.
SpecLogin == InitGet /\ [][NextLogin]_vars

\* The verbs sent so far.
SentVerbs == [i \in 1..Len(c2s) |-> c2s[i].verb]

\* C18: Login sends USER first; a 230 reply to USER ends it well with no
\* PASS sent; PASS is sent only on a 331 reply to USER, and only in the step
\* that has read that reply; Login then succeeds only if the reply to PASS
\* is 230; every other reply to USER or to PASS is an error.
C18_LoginSequence ==
    [][/\ (c2s' # <<>>) => c2s'[1].verb = "USER"
       /\ (c2s' # c2s /\ c2s'[Len(c2s')].verb = "PASS")
          => /\ cpc = "user" /\ s2c # <<>> /\ s2c' = Tail(s2c)
             /\ Head(s2c).code = 331
             /\ SentVerbs = <<"USER">>
       /\ (cpc = "user" /\ cpc' # "user")
          => LET code == Head(s2c).code
             IN  /\ code = 230 => (cpc' = "loggedIn" /\ cerr' = "" /\ c2s' = c2s)
                 /\ code = 331 => (cpc' = "pass" /\ cerr' = "" /\ c2s' = Append(c2s, [verb |-> "PASS", param |-> Str(FALSE, <<"guest@">>)]))
                 /\ code \notin {230, 331} => (cpc' = "close" /\ cerr' # "" /\ c2s' = c2s)
       /\ (cpc = "pass" /\ cpc' # "pass")
          => LET code == Head(s2c).code
             IN  /\ code = 230 => (cpc' = "loggedIn" /\ cerr' = "")
                 /\ code # 230 => (cpc' = "close" /\ cerr' # "")
                 /\ c2s' = c2s
       /\ (cpc' = "loggedIn" /\ cpc # "loggedIn") => cpc \in {"user", "pass"}]_vars

\* Login has succeeded on a 230 reply to USER: no PASS was sent.
C18_Witness == cpc = "loggedIn" /\ SentVerbs = <<"USER">> /\ cerr = ""

\* ---------------------------------------------------------------- C19, C20

\* The client's functions against a server that may be anything.  It answers
\* whenever the client waits for a reply, with a code of AnswerCodes (99
\* stands for a line the decoder rejects); a 227 carries six numbers naming
\* one of its ports, listening or not, or carries none.
AnswerCodes == {99, 125, 150, 226, 227, 230, 250, 331, 451}
Waiting == {"welcome", "user", "pass", "cwd", "type", "pasv", "retr", "stor", "list", "final", "quit"}

PeerAnswer ==
    /\ cpc \in Waiting /\ s2c = <<>>
    /\ c2s' = IF c2s = <<>> THEN c2s ELSE Tail(c2s)
    /\ \E code \in AnswerCodes :
       \E arg \in (IF code = 227 THEN {<<>>} \cup { PassiveAddr(ListenPort(l)) : l \in ConnIds }
                   ELSE {<<>>}) :
          s2c' = <<[code |-> code, msg |-> "", arg |-> arg]>>
    /\ UNCHANGED <<serverVars, calcVars, cpc, cPath, cOp, cData, shut, dialed, rcvd, got, cerr, cfinal>>

\* The server opens one of its data ports.
PeerListen(l) ==
    /\ lsn[l] = "none"
    /\ lsn' = [lsn EXCEPT ![l] = "listening"]
    /\ UNCHANGED <<registry, pc, authenticated, workDir, dataConn, fh, nextId, dconn, owner,
                   files, histVars, clientVars, calcVars>>

\* The server closes its end of a data connection the client has made.
PeerCloseData(l) ==
    /\ l \in dialed /\ dconn[l] # "closed"
    /\ dconn' = [dconn EXCEPT ![l] = "closed"]
    /\ UNCHANGED <<registry, pc, authenticated, workDir, dataConn, fh, nextId, lsn, owner,
                   files, histVars, clientVars, calcVars>>

\* What is typed after the command name at the shell's prompt, and the paths
\* of the URLs given to Get and Put.
ClientPaths == { <<"a.txt">>, <<"d", "a.txt">> }

InitClient ==
    /\ InitServer
    /\ cpc = "off"
    /\ cPath \in ClientPaths
    /\ cOp \in {"Get", "Put", "StartShell"}
    /\ c2s = <<>>
    /\ s2c = <<>>
    /\ cData = Nil
    /\ shut = {}
    /\ dialed = {}
    /\ rcvd = [i \in ConnIds |-> <<>>]
    /\ got = <<>>
    /\ cerr = ""
    /\ cfinal = 0
    /\ NoCalc

NextClient ==
    \/ GetDial \/ ConnectWelcome \/ LoginUser \/ LoginPass
    \/ GetChangeDir \/ GetBinaryMode \/ GetPassive \/ enterPassiveMode
    \/ GetSendRetr \/ GetRetr \/ GetCopy \/ GetFinal
    \/ PutSendStor \/ PutStor \/ PutCopy
    \/ sessionStart \/ processList \/ processGet \/ processPut \/ processQuit
    \/ listFilesSend \/ listFilesReply \/ listFilesRead
    \/ downloadFileSend \/ uploadFileSend \/ shellFinal
    \/ Close \/ CloseQuit
    \/ PeerAnswer
    \/ \E l \in ConnIds : PeerListen(l)
    \/ \E l \in ConnIds : PeerCloseData(l)

\* Get, Put and the interactive shell, the server being anything.
SpecClient == InitClient /\ [][NextClient]_vars

\* The step sends one command line, of a verb in V.
Sends(V) ==
    /\ Len(c2s') = Len(c2s) + 1
    /\ SubSeq(c2s', 1, Len(c2s)) = c2s
    /\ c2s'[Len(c2s')].verb \in V

\* The listeners at the address a reply to PASV names.
Advertised(r) ==
    IF Len(r.arg) # 6 THEN {}
    ELSE { l \in ConnIds : lsn[l] = "listening" /\ ListenPort(l) = r.arg[5] * 256 + r.arg[6] }

\* C19: RETR, STOR and LIST are sent only by a client that has entered
\* passive mode and holds the data connection it dialed; passive mode is
\* entered only by the step that reads a 227 reply to PASV and dials the
\* address it names with success; PASV is sent with no data connection
\* held; and when the reply is not 227 or the dial fails the function ends
\* with an error and sends nothing.  Once passive mode is entered the next
\* step of the client is the transfer command (or, in Put, the failure to
\* open the local file).
C19_PassiveBeforeTransfer ==
    [][/\ Sends({"RETR", "STOR", "LIST"})
          => cpc = "ready" /\ cData # Nil /\ cData \in dialed
       /\ (cpc' = "ready" /\ cpc # "ready")
          => /\ cpc = "pasv" /\ s2c # <<>>
             /\ Head(s2c).code = 227
             /\ cData' \in Advertised(Head(s2c))
             /\ cData' \in dialed'
             /\ c2s' = c2s
       /\ (cpc' = "pasv" /\ cpc # "pasv") => Sends({"PASV"}) /\ cData' = Nil
       /\ (cpc = "pasv" /\ cpc' \notin {"pasv", "ready"})
          => /\ Head(s2c).code # 227 \/ Advertised(Head(s2c)) = {}
             /\ cpc' \in {"prompt", "close"} /\ cerr' # ""
             /\ c2s' = c2s /\ cData' = Nil
       /\ (cpc = "ready" /\ cpc' # "ready")
          => \/ Sends({"RETR", "STOR", "LIST"}) /\ cData' = cData
             \/ cOp = "Put" /\ cpc' = "close" /\ cerr' # "" /\ c2s' = c2s]_vars

\* listFiles has sent LIST on the data connection it dialed after a 227.
C19_Witness == cpc = "list" /\ cOp = "listFiles" /\ cData # Nil /\ cData \in dialed

\* C20: the step that follows the byte copy finds the data connection closed
\* and the field cleared, reads one reply, and, when that reply decodes,
\* returns no error whatever its code is.
C20_FinalCodeIsNoFailure ==
    [][(cpc = "final" /\ cpc' # "final")
       => /\ cData = Nil
          /\ s2c # <<>> /\ s2c' = Tail(s2c)
          /\ ~readResponse(Head(s2c)).err => cerr' = ""]_vars

\* ---------------------------------------------------------------- C21

\* C21: when the handler of a RETR or STOR that replied 150 has returned,
\* one more reply was written after the 150: 226 when the copy ended without
\* error, a failure code (4xx or 5xx) when it did not.
C21_OneReplyAfter150 ==
    \A s \in Addrs :
        (/\ pc[s] = "read" /\ cur[s].verb \in {"RETR", "STOR"}
         /\ Codes(s) # <<>> /\ Codes(s)[1] = 150)
        => /\ Len(Codes(s)) = 2
           /\ LET copy == fsLog[s][Len(fsLog[s])]
              IN  IF copy.ok THEN Codes(s)[2] = 226 ELSE Codes(s)[2] \in 400..599

\* ---------------------------------------------------------------- C22

\* The listener of the PASV that s processed last, while its accept is still
\* pending; Nil when the last command was no PASV answered 227 or the accept
\* has completed.
PendingPassive(s) ==
    IF /\ cur[s].verb = "PASV" /\ Codes(s) = <<227>>
       /\ nextId - 1 \in ConnIds /\ owner[nextId - 1] = s /\ lsn[nextId - 1] = "listening"
    THEN nextId - 1 ELSE Nil

\* C22: an authenticated LIST, RETR or STOR that the control loop processes
\* right after a PASV answered 227, while the accept of that PASV is still
\* pending, is answered by one 425 and the loop is back at its read, the
\* accept still pending.
C22_PendingAccept425 ==
    [][\A s \in Addrs :
         (/\ Processes(s) /\ authenticated[s] /\ PendingPassive(s) # Nil
          /\ cur'[s].verb \in TransferVerbs)
         => /\ resp'[s] = <<Reply(425, "Use PORT or PASV first")>>
            /\ pc'[s] = "read"
            /\ lsn'[PendingPassive(s)] = "listening"]_vars

\* ---------------------------------------------------------------- C23

\* Two control connections at once.  Each runs commands that move every
\* field of its session: PASS, CWD, PASV (whose accept fills the slot), RETR
\* (whose deferred function clears it) and QUIT (which ends in the cleanup).
PairCommands ==
    { [verb |-> "PASS", param |-> EmptyStr],
      [verb |-> "CWD",  param |-> Str(FALSE, <<"d">>)],
      [verb |-> "PASV", param |-> EmptyStr],
      [verb |-> "RETR", param |-> Str(FALSE, <<"a.txt">>)],
      [verb |-> "QUIT", param |-> EmptyStr] }

PairCmd(s) ==
    /\ pc[s] = "read"
    /\ \E c \in PairCommands : handleCommand(s, c.verb, c.param, EnvOK)
    /\ UNCHANGED <<clientVars, calcVars>>

NextPair ==
    \/ \E s \in Addrs :
         \/ StepAcceptClient(s) \/ StepCleanup(s)
         \/ PairCmd(s)
         \/ StepPassiveSetup(s)
         \/ StepRetrieveCopy(s) \/ StepDeferredClose(s) \/ StepDeferredClear(s)
    \/ \E l \in ConnIds : StepAccept(l)

SpecPair == Init /\ [][NextPair]_vars

\* The fields of the session of s.
SessionOf(s) == <<authenticated[s], workDir[s], dataConn[s]>>

\* The step is one of the goroutines of s: its control loop moves or
\* replies, or the accept on one of its listeners returns.
ActsFor(s) ==
    \/ pc'[s] # pc[s] \/ resp'[s] # resp[s] \/ cur'[s] # cur[s]
    \/ \E l \in ConnIds : owner[l] = s /\ lsn[l] = "listening" /\ lsn'[l] = "closed"

\* C23: a step that changes authenticated, workDir or dataConn of a session
\* is a step of that session's own goroutines and of no other session's; a
\* data connection held by a session was made for it, so no two sessions
\* hold the same one; and the registry changes only by the insertion of the
\* address whose handleClient starts or the deletion of the address whose
\* handleClient cleans up, so that it holds each live connection's own
\* address.
C23_SessionsIsolated ==
    [][/\ \A s \in Addrs :
            SessionOf(s)' # SessionOf(s)
            => /\ ActsFor(s)
               /\ \A t \in Addrs \ {s} : ~ActsFor(t) /\ SessionOf(t)' = SessionOf(t)
       /\ \A s \in Addrs : dataConn'[s] # Nil => owner'[dataConn'[s]] = s
       /\ \A s, t \in Addrs : (s # t /\ dataConn'[s] # Nil) => dataConn'[s] # dataConn'[t]
       /\ registry' # registry
          => \E s \in Addrs :
                \/ pc[s] = "none" /\ pc'[s] = "read" /\ registry' = registry \cup {s}
                \/ pc[s] = "cleanup" /\ pc'[s] = "closed" /\ registry' = registry \ {s}
       /\ \A s \in Addrs : s \in registry' <=> pc'[s] \in {"read", "clearSlot", "copy", "deferClose", "deferClear", "cleanup"}]_vars

\* Both sessions are logged in, in different directories, and each holds the
\* data connection accepted on its own passive listener.
C23_Witness ==
    /\ authenticated["c1"] /\ authenticated["c2"]
    /\ workDir["c1"] # workDir["c2"]
    /\ dataConn["c1"] # Nil /\ dataConn["c2"] # Nil
    /\ owner[dataConn["c1"]] = "c1" /\ owner[dataConn["c2"]] = "c2"

\* ---------------------------------------------------------------- C24

\* C24: whenever Get of d/a.txt has returned without error, after a CWD d
\* that the server accepted, the local file holds the bytes of the server's
\* d/a.txt.
C24_GetFromDirectory ==
    (/\ cpc = "done" /\ cPath = <<"d", "a.txt">> /\ cerr = ""
     /\ workDir[Peer] = Str(TRUE, <<"d">>))
    => got = InitFiles[<<"srv", "d", "a.txt">>]

\* ---------------------------------------------------------------- C25

\* The server with its scheduling: a handleClient whose loop has ended runs
\* its deferred cleanup.
SpecFair == Spec /\ \A s \in Clients : WF_vars(StepCleanup(s))

\* C25: a QUIT read by the control loop, whatever the session holds, writes
\* the one reply 221 and ends the loop, leaving the session's fields as they
\* were; once the loop has ended no command is processed and no reply is
\* written on that connection; and the cleanup that follows removes the
\* session from the registry.
C25_QuitEndsLoop ==
    /\ [][\A s \in Addrs :
            /\ (Processes(s) /\ cur'[s].verb = "QUIT")
               => /\ resp'[s] = <<Reply(221, "Goodbye")>>
                  /\ pc'[s] = "cleanup"
                  /\ SessionOf(s)' = SessionOf(s)
            /\ pc[s] \in {"cleanup", "closed"}
               => /\ cur'[s] = cur[s] /\ resp'[s] = resp[s]
                  /\ pc'[s] \in {"cleanup", "closed"}
                  /\ pc'[s] = "closed" => s \notin registry']_vars
    /\ \A s \in Clients : (pc[s] = "cleanup") ~> (pc[s] = "closed" /\ s \notin registry)

\* A logged-in session holding a data connection has quit: its one reply is
\* 221 and it is gone from the registry.
C25_Witness ==
    \E s \in Addrs :
        /\ cur[s].verb = "QUIT" /\ Codes(s) = <<221>>
        /\ authenticated[s] /\ dataConn[s] # Nil
        /\ pc[s] = "closed" /\ s \notin registry

\* ---------------------------------------------------------------- C26

\* Verbs of no case of handleCommand's switch: the three the client shell
\* sends (makeDirectory, removeDirectory, deleteFile) and two others.
UnsupportedVerbs == {"MKD", "RMD", "DELE", "NOOP", "XYZ"}

CmdUnsupported(s) ==
    /\ pc[s] = "read"
    /\ \E v \in UnsupportedVerbs : handleCommand(s, v, Str(FALSE, <<"d">>), EnvOK)
    /\ UNCHANGED <<clientVars, calcVars>>

\* One connection: the commands that bring the session into each of its
\* states (PASS, CWD, PASV with its accept, PORT), and the commands that only
\* reply.
NextPlain ==
    \/ \E s \in Clients :
         \/ StepAcceptClient(s)
         \/ CmdPass(s) \/ CmdCwd(s) \/ CmdPasv(s) \/ CmdPort(s)
         \/ StepPassiveSetup(s) \/ StepPortSetup(s)
         \/ CmdUser(s) \/ CmdSyst(s) \/ CmdFeat(s) \/ CmdPwd(s) \/ CmdType(s)
         \/ CmdUnsupported(s)
    \/ \E l \in ConnIds : StepAccept(l)

SpecPlain == Init /\ [][NextPlain]_vars

\* The lines writeMultiResponse puts on the control connection for FEAT.
FeatLines ==
    writeMultiResponse(211, << <<"F", "e", "a", "t", "u", "r", "e", "s", ":">>,
                               <<" ", "U", "T", "F", "8">>,
                               <<"E", "n", "d">> >>)

\* The code each of the verbs that only reply is answered with.
PlainCode(verb) ==
    CASE verb = "USER" -> 331
      [] verb = "SYST" -> 215
      [] verb = "FEAT" -> 211
      [] verb = "PWD"  -> 257
      [] verb = "TYPE" -> 200
      [] OTHER -> 502

\* C26: USER, SYST, FEAT, PWD, TYPE and every unsupported verb, read in any
\* session state, leave authenticated, workDir and dataConn (and every
\* listener, data connection and file) as they were, write exactly one reply
\* with the verb's code, 502 for an unsupported verb, and leave the loop at
\* its read; the three lines of FEAT decode as one reply of code 211.
C26_PlainVerbs ==
    [][\A s \in Addrs :
         (/\ Processes(s)
          /\ cur'[s].verb \in {"USER", "SYST", "FEAT", "PWD", "TYPE"} \cup UnsupportedVerbs)
         => /\ SessionOf(s)' = SessionOf(s)
            /\ UNCHANGED <<registry, fh, chanVars, files>>
            /\ pc'[s] = "read"
            /\ Len(resp'[s]) = 1
            /\ resp'[s][1].code = PlainCode(cur'[s].verb)
            /\ cur'[s].verb = "FEAT"
               => readLines(FeatLines) = [err |-> FALSE, code |-> 211, used |-> Len(FeatLines)]]_vars

\* A logged-in session in /d that holds a data connection was sent DELE and
\* answered 502.
C26_Witness ==
    \E s \in Addrs :
        /\ cur[s].verb = "DELE" /\ Codes(s) = <<502>>
        /\ authenticated[s] /\ workDir[s] = Str(TRUE, <<"d">>) /\ dataConn[s] # Nil

\* ---------------------------------------------------------------- C27

\* Where the control loop of a session is about to use session.dataConn
\* inside a handler or the cleanup: the `session.dataConn = nil` of PASV and
\* PORT, the copy of a transfer, the Close and the clear of its deferred
\* function, and the nil check and Close of handleClient's cleanup.
AccessPoints == {"clearSlot", "copy", "deferClose", "deferClear", "cleanup"}

\* The next statement of the control loop of s at such a point.
ControlStep(s) ==
    \/ StepPassiveSetup(s) \/ StepPortSetup(s)
    \/ StepListCopy(s) \/ StepRetrieveCopy(s) \/ StepStoreCopy(s)
    \/ StepDeferredClose(s) \/ StepDeferredClear(s)
    \/ StepCleanup(s)

\* C27: nothing orders the accept goroutine's `session.dataConn = conn` with
\* the control loop's uses of session.dataConn: whenever a listener of a
\* session is accepting while the session's control loop stands at one of
\* those uses, the goroutine's write and the loop's statement are both
\* enabled, so either may come first.
C27_AcceptUnordered ==
    \A l \in ConnIds :
        (lsn[l] = "listening" /\ pc[owner[l]] \in AccessPoints)
        => (ENABLED StepAccept(l)) /\ (ENABLED ControlStep(owner[l]))

\* The deferred function of handleRetrieve has closed the connection and is
\* about to clear the slot while the accept of a listener of the session is
\* pending.
C27_Witness ==
    \E l \in ConnIds :
        /\ lsn[l] = "listening"
        /\ pc[owner[l]] = "deferClear" /\ cur[owner[l]].verb = "RETR"

\* ---------------------------------------------------------------- C28

\* The path lies in the directory the server was started on.
InRoot(path) ==
    /\ Len(path) >= Len(RootDir.segs)
    /\ SubSeq(path, 1, Len(RootDir.segs)) = RootDir.segs

\* C28: an authenticated RETR or STOR on a live data channel always goes to
\* the file system with RootDir joined to the cleaned parameter, inside the
\* root or not, and its reply depends only on what os.Open, file.Stat or
\* os.Create then return: 550 when the call fails, 150 when a file was
\* created, 150 or 550 (Stat) when one was opened.  The working directory,
\* joined to RootDir, never leaves the root.
C28_NoRootCheck ==
    [][/\ \A s \in Addrs :
            (/\ Processes(s) /\ authenticated[s] /\ dataConn[s] # Nil
             /\ cur'[s].verb \in {"RETR", "STOR"})
            => LET real == Join(RootDir, Clean(cur'[s].param)).segs
                   call == fsLog'[s][1]
                   code == resp'[s][1].code
               IN  /\ Len(fsLog'[s]) = 1 /\ Len(resp'[s]) = 1
                   /\ call.path = real
                   /\ IF cur'[s].verb = "RETR"
                      THEN /\ call.op = "open" /\ call.ok = Exists(real)
                           /\ code \in {150, 550}
                           /\ ~call.ok => code = 550
                      ELSE /\ call.op = "create" /\ call.ok = CanCreate(real)
                           /\ code = IF call.ok THEN 150 ELSE 550
                           /\ call.ok => real \in DOMAIN files'
       /\ \A s \in Addrs : InRoot(Join(RootDir, workDir'[s]).segs)]_vars

\* A RETR whose parameter starts with ".." opened a file outside the root
\* and sent it: replies 150 and 226.
C28_Witness ==
    \E s \in Addrs :
        /\ cur[s].verb = "RETR" /\ Codes(s) = <<150, 226>>
        /\ cur[s].param.segs[1] = ".."
        /\ fsLog[s][1].ok /\ ~InRoot(fsLog[s][1].path)
        /\ InRoot(Join(RootDir, workDir[s]).segs)

\* ---------------------------------------------------------------- C29

\* strings.Split(str, sep) for a separator of one byte.
RECURSIVE Split(_, _)
Split(str, sep) ==
    IF \A i \in 1..Len(str) : str[i] # sep THEN <<str>>
    ELSE LET i == CHOOSE k \in 1..Len(str) :
                     str[k] = sep /\ \A j \in 1..(k - 1) : str[j] # sep
         IN  <<SubSeq(str, 1, i - 1)>> \o Split(SubSeq(str, i + 1, Len(str)), sep)

\* handlePassive from the port on: the host of the control connection's
\* local address is split at its dots and the first four parts are indexed;
\* indexing a part that is not there panics.
passivePayload(host, port) ==
    LET hostParts == Split(host, ".")
    IN  IF Len(hostParts) < 4 THEN [panic |-> TRUE, fields |-> <<>>]
        ELSE [panic |-> FALSE,
              fields |-> <<hostParts[1], hostParts[2], hostParts[3], hostParts[4],
                           Itoa(port \div 256), Itoa(port % 256)>>]

\* Hosts net.SplitHostPort returns for the local address of an accepted
\* connection: IPv4 addresses, and IPv6 addresses (the listener is bound to
\* ":port", every family), one of them with a zone.
LocalHosts ==
    { <<"1", "2", "7", ".", "0", ".", "0", ".", "1">>,
      <<"1", "0", ".", "2", "0", ".", "3", "0", ".", "4", "0">>,
      <<"1", "9", "2", ".", "1", "6", "8", ".", "1", ".", "2", "5", "5">>,
      <<":", ":", "1">>,
      <<"2", "0", "0", "1", ":", "d", "b", "8", ":", ":", "1">>,
      <<"f", "e", "8", "0", ":", ":", "1", "%", "e", "t", "h", "0">> }

\* Ports the host assigns to the passive listener.
PayloadPorts == { hi * 256 + lo : hi \in {4, 8, 192, 255}, lo \in {0, 1, 73, 255} }

InitPayload ==
    /\ InitServer /\ NoClient
    /\ fnArg \in [host : LocalHosts, port : PayloadPorts]
    /\ fnRet = <<>>

\* handlePassive builds the payload of its 227 reply.
BuildPayload ==
    /\ fnRet = <<>>
    /\ fnRet' = <<passivePayload(fnArg.host, fnArg.port)>>
    /\ UNCHANGED <<serverVars, clientVars, fnArg>>

SpecPayload == InitPayload /\ [][BuildPayload]_vars

\* A decimal number of 0..255.
IsOctet(str) ==
    /\ str # <<>> /\ \A i \in 1..Len(str) : IsDigit(str[i])
    /\ AtoiVal(str) \in 0..255

\* C29: for every local address, handlePassive builds its payload without
\* aborting, and the payload has six fields, each a decimal number of
\* 0..255, the last two being port / 256 and port % 256.
C29_SixNumbers ==
    fnRet # <<>> =>
        /\ ~fnRet[1].panic
        /\ Len(fnRet[1].fields) = 6
        /\ \A i \in 1..6 : IsOctet(fnRet[1].fields[i])
        /\ AtoiVal(fnRet[1].fields[5]) * 256 + AtoiVal(fnRet[1].fields[6]) = fnArg.port

\* ---------------------------------------------------------------------
\* The interactive session against the server of this repository, on a
\* client host where os.Create and io.Copy may fail.

\* handleList's copy stage as the session's peer sees it.
ServeListCopy(s) ==
    /\ ListCopy(s, EnvOK)
    /\ s2c' = s2c \o Sent(s)
    /\ rcvd' = [rcvd EXCEPT ![dataConn[s]] = @ \o SentData(s)]
    /\ UNCHANGED <<calcVars, cpc, cPath, cOp, c2s, cData, shut, dialed, got, cerr, cfinal>>

\* handlePassive past closeDataConn, when the session still held a data
\* connection.
ServePassiveSetup(s) ==
    /\ PassiveSetup(s, EnvOK)
    /\ s2c' = s2c \o Sent(s)
    /\ UNCHANGED <<calcVars, cpc, cPath, cOp, c2s, cData, shut, dialed, rcvd, got, cerr, cfinal>>

\* The names typed after get.
ShellPaths == { <<"a.txt">>, <<"n.txt">> }

InitShell ==
    /\ InitServer
    /\ cpc = "off"
    /\ cPath \in ShellPaths
    /\ cOp = "StartShell"
    /\ c2s = <<>>
    /\ s2c = <<>>
    /\ cData = Nil
    /\ shut = {}
    /\ dialed = {}
    /\ rcvd = [i \in ConnIds |-> <<>>]
    /\ got = <<>>
    /\ cerr = ""
    /\ cfinal = 0
    /\ NoCalc

NextShell ==
    \/ GetDial \/ ConnectWelcome \/ LoginUser \/ LoginPass
    \/ sessionStart \/ processList \/ processGet \/ processQuit
    \/ GetPassive \/ enterPassiveMode
    \/ listFilesSend \/ listFilesReply \/ listFilesRead
    \/ downloadFileSend \/ GetRetrCreate \/ GetCopy \/ GetCopyError
    \/ shellFinal \/ Close \/ CloseQuit
    \/ ServeClient(Peer) \/ ServeCommand(Peer) \/ ServePassiveSetup(Peer)
    \/ ServeListCopy(Peer) \/ ServeRetrieveCopy(Peer)
    \/ ServeDeferredClose(Peer) \/ ServeDeferredClear(Peer) \/ ServeCleanup(Peer)
    \/ \E l \in ConnIds : ServePassiveAccept(l)

SpecShell == InitShell /\ [][NextShell]_vars

\* A handler of the server is at a stage that will still write a reply to a
\* command read earlier.
ReplyOwed == pc[Peer] \in {"copy", "clearSlot"}

\* C30: whenever the interactive session sends a control command, no data
\* connection of a transfer the server acknowledged is still open on its
\* side, and the command is the only one unanswered: no reply to an earlier
\* command is unread or yet to come, so that the reply sendCommand returns
\* is the reply to that very command.
C30_ShellInStep ==
    [][(cOp' \in ShellOps /\ Len(c2s') = Len(c2s) + 1)
          => /\ ~(cerr \in {"create", "copy"} /\ cData # Nil /\ cData' = cData)
             /\ Len(c2s') = 1 /\ s2c' = <<>> /\ ~ReplyOwed]_vars

\* ---------------------------------------------------------------------
\* C31: as long as a session has processed no PASS, no command of it has
\* made a file-system call, written a byte on a data connection or left a
\* file open, whether or not PASV or PORT gave it a data connection; and as
\* long as no session has processed one, the files are those of the start.
C31_NoFileAccessBeforePass ==
    /\ \A s \in Addrs :
          ~authenticated[s] =>
             /\ fsLog[s] = <<>>
             /\ wrote[s] = <<>>
             /\ fh[s] = NoFile
    /\ (\A s \in Addrs : ~authenticated[s]) => files = InitFiles

\* An unauthenticated session holds a data connection and its transfer
\* command was answered 530.
C31_Witness ==
    \E s \in Addrs :
       /\ ~authenticated[s]
       /\ pc[s] = "read"
       /\ dataConn[s] # Nil
       /\ cur[s].verb \in TransferVerbs
       /\ Codes(s) = <<530>>

====
